---------------------------- MODULE Spec2Model ----------------------------
(***************************************************************************)
(* HalalMap Georgia.                                                       *)
(*                                                                         *)
(* Part I   the home page (frontend/app/page.tsx): the React state of     *)
(*          HomePage, its handlers, and the two kinds of suspended work   *)
(*          (network searches and device-location requests).              *)
(* Part II  the nearby endpoint of the API server: the middleware chain   *)
(*          validateNearbyQuery -> handleValidationErrors ->              *)
(*          getNearbyPlaces and the call of get_nearby_places.            *)
(*                                                                         *)
(* Part III the places table of the database (database/schema.sql): its   *)
(*          writes with the trigger update_location_geography, and the    *)
(*          function get_nearby_places that the nearby endpoint calls.    *)
(* Part IV  the routes of the places router and of the admin router and   *)
(*          the middleware authenticateToken in front of the latter.      *)
(* Part V   the listing endpoint GET /api/places.                         *)
(* Part VI  the admin pages in the browser: AdminLayout, the token in     *)
(*          localStorage and the interceptors of the API client.          *)
(* Part VII the helper transaction(callback) of config/database.ts.       *)
(*                                                                         *)
(* On the page, coordinates are fixed-point integers in units of 1e-4     *)
(* degree (41.7151 is 417151) and distances are whole meters.  In the     *)
(* database, coordinates are in units of 1e-6 degree and distances in     *)
(* tenths of a meter.                                                      *)
(*                                                                         *)
(* Every handler of HomePage runs to completion on the browser's single   *)
(* thread and React re-renders before the next event is delivered, so a   *)
(* handler is one atomic step that reads the state of the latest render.  *)
(* A handler keeps the closure of the render it was created in: a         *)
(* callback that is invoked later (the geolocation callbacks) still reads *)
(* the filters of the render in which the request was started, and        *)
(* fetchPlaces called right after setFilters still reads the filters of   *)
(* the current render, not the ones just set.                             *)
(***************************************************************************)
EXTENDS Integers, Sequences, FiniteSets, TLC

VARIABLES
    \* ---- HomePage state (useState) ----
    center,            \* map center
    userLocation,      \* Coordinates | null
    places,            \* Place[] shown on the map and in the lists
    selectedPlace,     \* Place | null
    filters,           \* PlaceFilters {type, distance}
    isLoading,         \* boolean
    error,             \* string | null
    \* ---- environment of the page ----
    geolocation,       \* navigator.geolocation is available
    mounted,           \* the mount effect (initial load) has run
    pendingFetches,    \* searches awaiting their response
    pendingLocations,  \* getCurrentPosition calls awaiting a callback
    nextFetchId,       \* issue order of searches
    nextLocationId,    \* issue order of location requests
    \* ---- history ----
    resolved,          \* the two most recent successful searches, oldest first
    located,           \* ids of the location requests that succeeded, in
                       \* order of success
    \* ---- API server, one request to /api/places/nearby ----
    pc,                \* position in the middleware chain
    req,               \* req.query
    validationErrors,  \* errors collected by the validation chains
    dbCalls,           \* calls of get_nearby_places made for the request
    res,               \* the response sent, or none
    \* ---- database ----
    placesTable,       \* the rows of table places, in order of their id
    lastSearch,        \* the latest call of get_nearby_places that returned
                       \* and its rows; none once a row has been written
    \* ---- the admin pages in the browser ----
    authToken,         \* localStorage item auth_token, or none
    pathname,          \* window.location.pathname
    isAuth,            \* AdminLayout state
    isChecking,        \* AdminLayout state
    effectDue,         \* the effect of AdminLayout has yet to run
    navigation,        \* the target of a router.push under way, or none
    \* ---- one call of transaction(callback) ----
    txPc,              \* the await at which the call stands
    txLog,             \* the statements sent to the client, in order
    released,          \* calls of client.release()
    thrown,            \* the first error thrown inside the try block
    outcome,           \* how the call settled: none, resolved or rejected
    calls              \* calls of transaction so far

clientVars == <<center, userLocation, places, selectedPlace, filters,
                isLoading, error, geolocation, mounted, pendingFetches,
                pendingLocations, nextFetchId, nextLocationId, resolved,
                located>>

serverVars == <<pc, req, validationErrors, dbCalls, res>>

storeVars == <<placesTable, lastSearch>>

adminVars == <<authToken, pathname, isAuth, isChecking, effectDue,
               navigation>>

txVars == <<txPc, txLog, released, thrown, outcome, calls>>

\* the variables outside the home page, the API server and the database
restVars == <<adminVars, txVars>>

vars == <<clientVars, serverVars, storeVars, restVars>>

-----------------------------------------------------------------------------
(* Bounds of the model *)

\* searches issued in one session
MaxFetches == 4

\* device-location requests issued in one session
MaxLocations == 2

\* places of the catalogue
MaxPlaceId == 2

\* slider positions explored, counted from the low end
MaxSliderStops == 1

\* rows of table places
MaxRows == 2

\* calls of transaction(callback), one after the other
MaxCalls == 2

\* statements that a callback sends to its client
MaxStatements == 2

-----------------------------------------------------------------------------
(* Values *)

\* null and undefined: an optional value is the empty set or a singleton
Null == {}

Some(x) == {x}

The(opt) == CHOOSE x \in opt : TRUE

\* an optional string-valued query parameter that is left out
Undefined == "undefined"

\* page.tsx: DEFAULT_CENTER, the fallbacks of parseFloat(... || '41.7151')
DefaultLat == 417151

DefaultLng == 448271

DEFAULT_CENTER == [lat |-> DefaultLat, lng |-> DefaultLng]

\* positions the device may report
DevicePositions == {[lat |-> 417089, lng |-> 448015],
                    [lat |-> 416400, lng |-> 416300]}

PlaceIds == 1..MaxPlaceId

\* a Place as the API returns it (id and position; the other columns are
\* carried along unchanged and play no part)
PlaceRow(id) == [id |-> id, latitude |-> 417000 + 100 * id,
                 longitude |-> 448000 - 100 * id]

AllPlaces == {PlaceRow(id) : id \in PlaceIds}

\* the data arrays a search may resolve with: every duplicate-free list
Responses ==
    {s \in UNION {[1..n -> AllPlaces] : n \in 0..MaxPlaceId} :
        \A i, j \in DOMAIN s : i # j => s[i].id # s[j].id}

PlaceTypes == {"restaurant", "mosque"}

\* Filters.tsx: <input type="range" min="1000" max="25000" step="1000">
SliderMin == 1000

SliderMax == 25000

SliderStep == 1000

SliderDistances ==
    {d \in {SliderMin + k * SliderStep :
              k \in 0..((SliderMax - SliderMin) \div SliderStep)} :
        d < SliderMin + MaxSliderStops * SliderStep}

\* page.tsx: useState<PlaceFilters>({ type: 'all', distance: 5000 })
InitialDistance == 5000

InitialFilters == [type |-> "all", distance |-> InitialDistance]

\* GeolocationPositionError.code: PERMISSION_DENIED, POSITION_UNAVAILABLE,
\* TIMEOUT, and a code that none of the cases names
GeolocationErrorCodes == {"PERMISSION_DENIED", "POSITION_UNAVAILABLE",
                          "TIMEOUT", "OTHER"}

\* every value the filters can take
FilterValues == [type : PlaceTypes \cup {"all"},
                 distance : SliderDistances \cup {InitialDistance}]

Ids(seq) == {seq[i].id : i \in DOMAIN seq}

-----------------------------------------------------------------------------
(* Part I: HomePage *)

\* getNearbyPlaces called with filters.type as it is, 'all' included
NearbyRequestWithAll(id, location, f) ==
    [id |-> id, kind |-> "nearby", location |-> Some(location),
     distance |-> Some(f.distance), type |-> f.type]

\* lib/api.ts getNearbyPlaces: GET /places/nearby?lat&lng&distance&type
NearbyRequest(id, location, f) ==
    [id |-> id, kind |-> "nearby", location |-> Some(location),
     distance |-> Some(f.distance),
     type |-> IF f.type # "all" THEN f.type ELSE Undefined]

\* lib/api.ts getAllPlaces: GET /places?type
ListingRequest(id, f) ==
    [id |-> id, kind |-> "all", location |-> Null, distance |-> Null,
     type |-> IF f.type # "all" THEN f.type ELSE Undefined]

\* fetchPlaces(location?) up to its await, in a render whose filters are f:
\* location is Null (no argument) or Some(coordinates)
FetchPlaces(location, f) ==
    /\ isLoading' = TRUE
    /\ error' = Null
    /\ pendingFetches' = pendingFetches \cup
          {IF location # Null
             THEN NearbyRequest(nextFetchId, The(location), f)
             ELSE ListingRequest(nextFetchId, f)}
    /\ nextFetchId' = nextFetchId + 1

\* one more search fits the bound, counting the ones that the pending
\* location requests will start
CanStartFetch ==
    nextFetchId + Cardinality(pendingLocations) <= MaxFetches

\* history: the search just resolved joins the two most recent ones
Remember(log, entry) ==
    IF Len(log) < 2 THEN Append(log, entry) ELSE <<log[2], entry>>

\* useEffect(() => { fetchPlaces(); }, [])
InitialLoad ==
    /\ ~mounted
    /\ mounted' = TRUE
    /\ FetchPlaces(Null, filters)
    /\ UNCHANGED <<center, userLocation, places, selectedPlace, filters,
                   geolocation, pendingLocations, nextLocationId, resolved,
                   located>>

\* FetchResolved with a guard against stale responses: a response that
\* arrives after a later-issued search has resolved is dropped
FetchResolvedUnlessStale(r, data) ==
    /\ r \in pendingFetches
    /\ places' = IF \E i \in DOMAIN resolved : resolved[i].id > r.id
                   THEN places ELSE data
    /\ isLoading' = FALSE
    /\ pendingFetches' = pendingFetches \ {r}
    /\ resolved' = Remember(resolved, [id |-> r.id, data |-> data])
    /\ UNCHANGED <<center, userLocation, selectedPlace, filters, error,
                   geolocation, mounted, pendingLocations, nextFetchId,
                   nextLocationId, located>>

\* the await of fetchPlaces resumes with a response: setPlaces(result.data),
\* then the finally block
FetchResolved(r, data) ==
    /\ r \in pendingFetches
    /\ places' = data
    /\ isLoading' = FALSE
    /\ pendingFetches' = pendingFetches \ {r}
    /\ resolved' = Remember(resolved, [id |-> r.id, data |-> data])
    /\ UNCHANGED <<center, userLocation, selectedPlace, filters, error,
                   geolocation, mounted, pendingLocations, nextFetchId,
                   nextLocationId, located>>

\* FetchFailed that also empties the list, as if the catch block ran
\* setPlaces([])
FetchFailedClearsPlaces(r) ==
    /\ r \in pendingFetches
    /\ error' = Some("Failed to load places. Please try again.")
    /\ places' = <<>>
    /\ isLoading' = FALSE
    /\ pendingFetches' = pendingFetches \ {r}
    /\ UNCHANGED <<center, userLocation, selectedPlace, filters,
                   geolocation, mounted, pendingLocations, nextFetchId,
                   nextLocationId, resolved, located>>

\* FetchFailed without the catch block: the failure is not reported, as if
\* fetchPlaces had try and finally only
FetchFailedSilently(r) ==
    /\ r \in pendingFetches
    /\ isLoading' = FALSE
    /\ pendingFetches' = pendingFetches \ {r}
    /\ UNCHANGED <<center, userLocation, places, selectedPlace, filters,
                   error, geolocation, mounted, pendingLocations,
                   nextFetchId, nextLocationId, resolved, located>>

\* the await of fetchPlaces throws (network error, timeout, 4xx/5xx): the
\* catch block, then the finally block
FetchFailed(r) ==
    /\ r \in pendingFetches
    /\ error' = Some("Failed to load places. Please try again.")
    /\ isLoading' = FALSE
    /\ pendingFetches' = pendingFetches \ {r}
    /\ UNCHANGED <<center, userLocation, places, selectedPlace, filters,
                   geolocation, mounted, pendingLocations, nextFetchId,
                   nextLocationId, resolved, located>>

\* getUserLocation, clicked on LocationButton (disabled while isLoading)
GetUserLocation ==
    /\ mounted
    /\ ~isLoading
    /\ geolocation
    /\ nextLocationId <= MaxLocations
    /\ CanStartFetch
    /\ isLoading' = TRUE
    /\ pendingLocations' = pendingLocations \cup
          {[id |-> nextLocationId, filters |-> filters]}
    /\ nextLocationId' = nextLocationId + 1
    /\ UNCHANGED <<center, userLocation, places, selectedPlace, filters,
                   error, geolocation, mounted, pendingFetches, nextFetchId,
                   resolved, located>>

\* LocationSuccess with a guard against stale positions: a position that
\* arrives after a later-issued request has succeeded is dropped
LocationSuccessUnlessStale(l, position) ==
    /\ l \in pendingLocations
    /\ pendingLocations' = pendingLocations \ {l}
    /\ located' = Append(located, l.id)
    /\ IF \E i \in DOMAIN located : located[i] > l.id
         THEN UNCHANGED <<userLocation, center, isLoading, error,
                          pendingFetches, nextFetchId>>
         ELSE /\ userLocation' = Some(position)
              /\ center' = position
              /\ FetchPlaces(Some(position), l.filters)
    /\ UNCHANGED <<places, selectedPlace, filters, geolocation, mounted,
                   nextLocationId, resolved>>

\* the success callback of getCurrentPosition, created in the render that
\* started request l
LocationSuccess(l, position) ==
    /\ l \in pendingLocations
    /\ userLocation' = Some(position)
    /\ center' = position
    /\ FetchPlaces(Some(position), l.filters)
    /\ pendingLocations' = pendingLocations \ {l}
    /\ located' = Append(located, l.id)
    /\ UNCHANGED <<places, selectedPlace, filters, geolocation, mounted,
                   nextLocationId, resolved>>

\* LocationError without the fallback: the toast only, the spinner cleared
LocationErrorNoFallback(l, code) ==
    /\ code \in GeolocationErrorCodes
    /\ l \in pendingLocations
    /\ isLoading' = FALSE
    /\ pendingLocations' = pendingLocations \ {l}
    /\ UNCHANGED <<center, userLocation, places, selectedPlace, filters,
                   error, geolocation, mounted, pendingFetches, nextFetchId,
                   nextLocationId, resolved, located>>

\* the error callback of getCurrentPosition: the switch on error.code only
\* chooses the toast; every code then runs fetchPlaces()
LocationError(l, code) ==
    /\ code \in GeolocationErrorCodes
    /\ l \in pendingLocations
    /\ FetchPlaces(Null, l.filters)
    /\ pendingLocations' = pendingLocations \ {l}
    /\ UNCHANGED <<center, userLocation, places, selectedPlace, filters,
                   geolocation, mounted, nextLocationId, resolved, located>>

\* handleFilterChange that searches around the default center while the
\* user location is unknown
HandleFilterChangeAroundDefault(newFilters) ==
    /\ mounted
    /\ CanStartFetch
    /\ filters' = newFilters
    /\ FetchPlaces(IF userLocation # Null THEN userLocation
                                          ELSE Some(DEFAULT_CENTER), filters)
    /\ UNCHANGED <<center, userLocation, places, selectedPlace, geolocation,
                   mounted, pendingLocations, nextLocationId, resolved,
                   located>>

\* handleFilterChange(newFilters)
HandleFilterChange(newFilters) ==
    /\ mounted
    /\ CanStartFetch
    /\ filters' = newFilters
    /\ FetchPlaces(userLocation, filters)
    /\ UNCHANGED <<center, userLocation, places, selectedPlace, geolocation,
                   mounted, pendingLocations, nextLocationId, resolved,
                   located>>

\* Filters.tsx handleTypeChange: onChange({ ...filters, type })
HandleTypeChange(type) ==
    HandleFilterChange([filters EXCEPT !.type = type])

\* Filters.tsx handleDistanceChange: onChange({ ...filters, distance }); the
\* slider reports a change of its value
HandleDistanceChange(distance) ==
    /\ distance # filters.distance
    /\ HandleFilterChange([filters EXCEPT !.distance = distance])

\* handlePlaceSelect without setCenter
HandlePlaceSelectNoRecenter(place) ==
    /\ mounted
    /\ selectedPlace' = Some(place)
    /\ UNCHANGED <<center, userLocation, places, filters, isLoading, error,
                   geolocation, pendingFetches, pendingLocations, mounted,
                   nextFetchId, nextLocationId, resolved, located>>

\* handlePlaceSelect(place): the handler tests nothing; its callers (a
\* marker of Map, a PlaceCard) are handed it as a prop
HandlePlaceSelect(place) ==
    /\ mounted
    /\ selectedPlace' = Some(place)
    /\ center' = [lat |-> place.latitude, lng |-> place.longitude]
    /\ UNCHANGED <<userLocation, places, filters, isLoading, error,
                   geolocation, pendingFetches, pendingLocations, mounted,
                   nextFetchId, nextLocationId, resolved, located>>

ServerIdle ==
    /\ pc = "idle"
    /\ req = Null
    /\ validationErrors = <<>>
    /\ dbCalls = <<>>
    /\ res = Null

ClientInit ==
    /\ center = DEFAULT_CENTER
    /\ userLocation = Null
    /\ places = <<>>
    /\ selectedPlace = Null
    /\ filters = InitialFilters
    /\ isLoading = FALSE
    /\ error = Null
    /\ geolocation \in BOOLEAN
    /\ mounted = FALSE
    /\ pendingFetches = {}
    /\ pendingLocations = {}
    /\ nextFetchId = 1
    /\ nextLocationId = 1
    /\ resolved = <<>>
    /\ located = <<>>

\* schema.sql: CREATE TABLE places, before seed.sql has run
StoreInit ==
    /\ placesTable = <<>>
    /\ lastSearch = Null

\* no token stored, the browser on the home page, AdminLayout not mounted
AdminInit ==
    /\ authToken = Null
    /\ pathname = "/"
    /\ isAuth = FALSE
    /\ isChecking = TRUE
    /\ effectDue = FALSE
    /\ navigation = Null

\* no call of transaction yet
TxInit ==
    /\ txPc = "idle"
    /\ txLog = <<>>
    /\ released = 0
    /\ thrown = Null
    /\ outcome = Null
    /\ calls = 0

Init == ClientInit /\ ServerIdle /\ StoreInit /\ AdminInit /\ TxInit

Next ==
    \/ InitialLoad /\ UNCHANGED <<serverVars, storeVars, restVars>>
    \/ \E r \in pendingFetches, data \in Responses :
          FetchResolved(r, data) /\ UNCHANGED <<serverVars, storeVars, restVars>>
    \/ \E r \in pendingFetches :
          FetchFailed(r) /\ UNCHANGED <<serverVars, storeVars, restVars>>
    \/ GetUserLocation /\ UNCHANGED <<serverVars, storeVars, restVars>>
    \/ \E l \in pendingLocations, position \in DevicePositions :
          LocationSuccess(l, position) /\ UNCHANGED <<serverVars, storeVars, restVars>>
    \/ \E l \in pendingLocations, code \in GeolocationErrorCodes :
          LocationError(l, code) /\ UNCHANGED <<serverVars, storeVars, restVars>>
    \/ \E type \in PlaceTypes \cup {"all"} :
          HandleTypeChange(type) /\ UNCHANGED <<serverVars, storeVars, restVars>>
    \/ \E distance \in SliderDistances :
          HandleDistanceChange(distance) /\ UNCHANGED <<serverVars, storeVars, restVars>>
    \/ \E place \in AllPlaces :
          HandlePlaceSelect(place) /\ UNCHANGED <<serverVars, storeVars, restVars>>

Spec == Init /\ [][Next]_vars

-----------------------------------------------------------------------------
(* Part I, properties of HomePage *)

Position(place) == [lat |-> place.latitude, lng |-> place.longitude]

\* the search started by a step, when the step started exactly one
Started(q) ==
    /\ q \notin pendingFetches
    /\ pendingFetches' = pendingFetches \cup {q}
    /\ q.id = nextFetchId
    /\ nextFetchId' = nextFetchId + 1

\* C1: the displayed result set is always the data of the most recently
\* successfully resolved search, and the empty initial set while none has
\* resolved: a search in flight or a failed one never changes it, a
\* successful one replaces it whole.
C1_DisplayedIsLastResolved ==
    places = IF resolved = <<>> THEN <<>> ELSE resolved[Len(resolved)].data

\* C1 witness: two searches resolved out of issue order with different
\* data while another search is in flight and a failure has been reported
C1_Witness ==
    /\ Len(resolved) = 2
    /\ resolved[1].id > resolved[2].id
    /\ resolved[1].data # resolved[2].data
    /\ places = resolved[2].data
    /\ pendingFetches # {}
    /\ error # Null

\* the searches X (issued first) and Y (issued later) both succeeded, Y
\* before X, and nothing has resolved since
OvertakenPair ==
    /\ Len(resolved) = 2
    /\ resolved[1].id > resolved[2].id

LateSuccess(l, position) ==
    /\ LocationSuccess(l, position)
    /\ \E i \in DOMAIN located : located[i] > l.id

C4_SelectionClearedOnReplace ==
    [][\A r \in pendingFetches, data \in Responses :
          (/\ FetchResolved(r, data)
           /\ selectedPlace # Null
           /\ The(selectedPlace).id \in Ids(places)
           /\ The(selectedPlace).id \notin Ids(data))
          => selectedPlace' = Null]_vars

\* C5 as stated: selecting a place whose id is not in the displayed result
\* set changes neither the selected place nor the map center.
C5_SelectAbsentIsNoOp ==
    [][\A place \in AllPlaces :
          (HandlePlaceSelect(place) /\ place.id \notin Ids(places))
          => (selectedPlace' = selectedPlace /\ center' = center)]_vars

\* C6: selecting a place of the displayed result set makes it the selected
\* place and centers the map on its latitude/longitude; no search is
\* started and the result set, userLocation and the filters stay.
C6_SelectPresent ==
    [][\A place \in AllPlaces :
          (HandlePlaceSelect(place) /\ place.id \in Ids(places))
          => /\ selectedPlace' = Some(place)
             /\ center' = Position(place)
             /\ pendingFetches' = pendingFetches
             /\ nextFetchId' = nextFetchId
             /\ pendingLocations' = pendingLocations
             /\ UNCHANGED <<places, userLocation, filters>>]_vars

\* C6 witness: a displayed place is selected and the map is centered on it,
\* away from the default center and from the user's location
C6_Witness ==
    /\ selectedPlace # Null
    /\ The(selectedPlace).id \in Ids(places)
    /\ center = Position(The(selectedPlace))
    /\ userLocation # Null
    /\ pendingFetches = {}

\* C7 as stated: a filter change stores the new filters, leaves the result
\* set alone and starts exactly one nearby query, centered on the user
\* location when it is known and on the default center when it is not.
C7_FilterChangeStartsNearby ==
    [][\A newFilters \in FilterValues :
          HandleFilterChange(newFilters) =>
              /\ filters' = newFilters
              /\ places' = places
              /\ \E q \in pendingFetches' :
                    /\ Started(q)
                    /\ q.kind = "nearby"
                    /\ q.location = IF userLocation # Null
                                      THEN userLocation
                                      ELSE Some(DEFAULT_CENTER)]_vars

\* C7 amended: a filter change stores the new filters, leaves the result
\* set alone and starts exactly one query: a nearby query centered on the
\* user location when it is known, a listing query without a center when
\* it is not.
C7_FilterChangeStartsOneQuery ==
    [][\A newFilters \in FilterValues :
          HandleFilterChange(newFilters) =>
              /\ filters' = newFilters
              /\ places' = places
              /\ \E q \in pendingFetches' :
                    /\ Started(q)
                    /\ q.kind = IF userLocation # Null THEN "nearby" ELSE "all"
                    /\ q.location = userLocation]_vars

\* C7 witness: with the user located by a single request, a second nearby
\* query centered on the user is in flight and the filters have changed
C7_Witness ==
    /\ userLocation # Null
    /\ Len(located) = 1
    /\ pendingLocations = {}
    /\ nextLocationId = 2
    /\ filters # InitialFilters
    /\ Cardinality({q \in pendingFetches :
                       q.kind = "nearby" /\ q.location = userLocation}) = 2

\* C8 as stated: a successful location request sets userLocation and the
\* map center to the returned coordinates and starts exactly one nearby
\* query centered on them that carries the category and radius stored at
\* the moment the request succeeds.
C8_LocatedSearchesWithStoredFilters ==
    [][\A l \in pendingLocations, position \in DevicePositions :
          LocationSuccess(l, position) =>
              /\ userLocation' = Some(position)
              /\ center' = position
              /\ \E q \in pendingFetches' :
                    /\ Started(q)
                    /\ q = NearbyRequest(q.id, position, filters)]_vars

\* C9: every device-location failure, whatever its code, starts exactly one
\* listing query without a center and leaves userLocation and the map
\* center unchanged.
C9_LocationFailureFallsBack ==
    [][\A l \in pendingLocations, code \in GeolocationErrorCodes :
          LocationError(l, code) =>
              /\ \E q \in pendingFetches' :
                    /\ Started(q)
                    /\ q.kind = "all"
                    /\ q.location = Null
              /\ userLocation' = userLocation
              /\ center' = center]_vars

\* C9 witness: the only location request failed after the first search had
\* resolved, and the listing query it started has put its data on the map
C9_Witness ==
    /\ nextLocationId = 2
    /\ pendingLocations = {}
    /\ located = <<>>
    /\ userLocation = Null
    /\ nextFetchId = 3
    /\ pendingFetches = {}
    /\ Len(resolved) = 2
    /\ resolved[2].id = 2
    /\ places = resolved[2].data
    /\ places # <<>>

-----------------------------------------------------------------------------
(* Part II: GET /api/places/nearby *)

(* A query-string value is a sequence of one-character strings, so that the
   validators and parsers work on its text.  A parameter that is left out
   is Null, a present one is Some(text). *)

Digits == {"0", "1", "2", "3", "4", "5", "6", "7", "8", "9"}

DigitValue(c) ==
    CASE c = "0" -> 0 [] c = "1" -> 1 [] c = "2" -> 2 [] c = "3" -> 3
      [] c = "4" -> 4 [] c = "5" -> 5 [] c = "6" -> 6 [] c = "7" -> 7
      [] c = "8" -> 8 [] c = "9" -> 9

RECURSIVE DigitsValue(_)
DigitsValue(u) ==
    IF u = <<>> THEN 0
    ELSE 10 * DigitsValue(SubSeq(u, 1, Len(u) - 1)) + DigitValue(u[Len(u)])

RECURSIVE Pow10(_)
Pow10(k) == IF k = 0 THEN 1 ELSE 10 * Pow10(k - 1)

AllDigits(u) == \A i \in DOMAIN u : u[i] \in Digits

Signed(s) == Len(s) > 0 /\ s[1] \in {"-", "+"}

Unsigned(s) == IF Signed(s) THEN Tail(s) ELSE s

SignOf(s) == IF Len(s) > 0 /\ s[1] = "-" THEN -1 ELSE 1

\* the places of "." in a text
Dots(u) == {i \in DOMAIN u : u[i] = "."}

IntegerPart(u) ==
    IF Dots(u) = {} THEN u ELSE SubSeq(u, 1, The(Dots(u)) - 1)

FractionPart(u) ==
    IF Dots(u) = {} THEN <<>> ELSE SubSeq(u, The(Dots(u)) + 1, Len(u))

\* /^[-+]?[0-9]+$/
IntSyntax(s) == Len(Unsigned(s)) > 0 /\ AllDigits(Unsigned(s))

\* /^[-+]?[0-9]*(\.[0-9]*)?$/ with a digit in it (the exponent form is not
\* among the texts explored)
FloatSyntax(s) ==
    /\ Cardinality(Dots(Unsigned(s))) <= 1
    /\ AllDigits(IntegerPart(Unsigned(s)))
    /\ AllDigits(FractionPart(Unsigned(s)))
    /\ Len(IntegerPart(Unsigned(s))) + Len(FractionPart(Unsigned(s))) > 0

\* a number is num / 10^exp; NaN is the one value with a negative exp
NaN == [num |-> 0, exp |-> -1]

\* parseInt / toInt of a text
ParseInt(s) ==
    IF IntSyntax(s)
      THEN [num |-> SignOf(s) * DigitsValue(Unsigned(s)), exp |-> 0]
      ELSE NaN

\* parseFloat / toFloat of a text
ParseFloat(s) ==
    IF FloatSyntax(s)
      THEN [num |-> SignOf(s) * DigitsValue(IntegerPart(Unsigned(s))
                                            \o FractionPart(Unsigned(s))),
            exp |-> Len(FractionPart(Unsigned(s)))]
      ELSE NaN

\* min <= x <= max, false of NaN
Between(x, min, max) ==
    /\ x # NaN
    /\ x.num >= min * Pow10(x.exp)
    /\ x.num <= max * Pow10(x.exp)

\* validator.js isInt(str, { min, max })
IsInt(s, min, max) == IntSyntax(s) /\ Between(ParseInt(s), min, max)

\* validator.js isFloat(str, { min, max })
IsFloat(s, min, max) == FloatSyntax(s) /\ Between(ParseFloat(s), min, max)

\* validation.ts validateNearbyQuery: the limits of the chains
MinLatitude == -90

MaxLatitude == 90

MinLongitude == -180

MaxLongitude == 180

MinDistance == 100

MaxDistance == 50000

\* validation.ts getNearbyPlaces: parseInt(...) || 5000
DefaultDistance == 5000

\* the text of an optional parameter; a missing one reads as ''
TextOf(param) == IF param = Null THEN <<>> ELSE The(param)

ValidationError(field, msg) == [field |-> field, message |-> msg]

\* query('lat').notEmpty().isFloat({ min: -90, max: 90 }).toFloat()
LatChain(q) ==
    (IF TextOf(q.lat) = <<>>
       THEN <<ValidationError("lat", "Latitude (lat) is required")>>
       ELSE <<>>)
    \o
    (IF ~IsFloat(TextOf(q.lat), MinLatitude, MaxLatitude)
       THEN <<ValidationError("lat", "Latitude must be between -90 and 90")>>
       ELSE <<>>)

\* query('lng').notEmpty().isFloat({ min: -180, max: 180 }).toFloat()
LngChain(q) ==
    (IF TextOf(q.lng) = <<>>
       THEN <<ValidationError("lng", "Longitude (lng) is required")>>
       ELSE <<>>)
    \o
    (IF ~IsFloat(TextOf(q.lng), MinLongitude, MaxLongitude)
       THEN <<ValidationError("lng",
                              "Longitude must be between -180 and 180")>>
       ELSE <<>>)

\* a distance chain whose limits are exclusive
DistanceChainExclusive(q) ==
    IF q.distance # Null
       /\ ~IsInt(The(q.distance), MinDistance + 1, MaxDistance - 1)
      THEN <<ValidationError("distance",
                             "Distance must be between 100 and 50000 meters")>>
      ELSE <<>>

\* query('distance').optional().isInt({ min: 100, max: 50000 }).toInt()
DistanceChain(q) ==
    IF q.distance # Null /\ ~IsInt(The(q.distance), MinDistance, MaxDistance)
      THEN <<ValidationError("distance",
                             "Distance must be between 100 and 50000 meters")>>
      ELSE <<>>

\* query('type').optional().isIn(['restaurant', 'mosque'])
TypeChain(q) ==
    IF q.type # Null /\ The(q.type) \notin PlaceTypes
      THEN <<ValidationError("type",
                  "Type must be either \"restaurant\" or \"mosque\"")>>
      ELSE <<>>

\* the four chains of validateNearbyQuery, run in order; each adds its
\* errors to the request
ValidateNearbyQuery(q) ==
    LatChain(q) \o LngChain(q) \o DistanceChain(q) \o TypeChain(q)

\* texts explored for each parameter
T(s) == Some(s)

RawLats == {Null, T(<<>>), T(<<"x">>), T(<<"4", "1", ".", "7", "1", "5", "1">>),
            T(<<"-", "9", "0">>), T(<<"9", "0", ".", "0", "1">>)}

RawLngs == {Null, T(<<"x">>), T(<<"4", "4", ".", "8", "2", "7", "1">>),
            T(<<"1", "8", "0">>), T(<<"-", "1", "8", "1">>)}

RawDistances == {Null, T(<<>>), T(<<"9", "9">>), T(<<"1", "0", "0">>),
                 T(<<"5", "0", "0", "0", "0">>), T(<<"5", "0", "0", "0", "1">>),
                 T(<<"1", "0", "0", "0", ".", "5">>), T(<<"x">>)}

RawTypes == {Null, T("restaurant"), T("mosque"), T("cafe"), T("")}

Queries == [lat : RawLats, lng : RawLngs, distance : RawDistances,
            type : RawTypes]

Response(status, err, msg, errors) ==
    [status |-> status, error |-> err, message |-> msg, errors |-> errors]

-----------------------------------------------------------------------------
(* Part III: table places and the function get_nearby_places *)

(* A row of places is [id, type, latitude, longitude, location]; the other
   columns (name, city, address, ...) take no part in a search.  latitude
   and longitude are in units of 1e-6 degree.  location is the geography
   column: none, or a point.  Lengths are in tenths of a meter; the sites
   of the model lie on a grid on which 1e-6 degree is a tenth of a meter
   in both directions, and ST_Distance is the length of the grid path
   between two points. *)

\* ST_SetSRID(ST_MakePoint(x, y), 4326)::geography
ST_MakePoint(x, y) == [x |-> x, y |-> y]

Abs(n) == IF n < 0 THEN 0 - n ELSE n

\* ST_Distance(a, b) of two geography points, in tenths of a meter
ST_Distance(a, b) == Abs(a.x - b.x) + Abs(a.y - b.y)

\* a test that leaves out the points at exactly so many meters
ST_DWithinExclusive(a, b, meters) == ST_Distance(a, b) < meters * 10

\* a test for a ring 200 m wide that ends at so many meters
ST_DWithinRing(a, b, meters) ==
    /\ ST_Distance(a, b) <= meters * 10
    /\ ST_Distance(a, b) > (meters - 200) * 10

\* ST_DWithin(a, b, meters): the distance is no more than so many meters
ST_DWithin(a, b, meters) == ST_Distance(a, b) <= meters * 10

\* the trigger function, for the row NEW: NEW.location := the point of
\* NEW.longitude and NEW.latitude
update_location_geography(new) ==
    [new EXCEPT !.location = Some(ST_MakePoint(new.longitude, new.latitude))]

\* a site so far north and east of 41.7151, 44.8271
Site(dLat, dLng) ==
    [latitude |-> 41715100 + dLat, longitude |-> 44827100 + dLng]

\* the sites at which places are put: 850 m, 999.6 m, 1000 m (two of
\* them) and 1200 m away from 41.7151, 44.8271
Sites == {Site(8500, 0), Site(9996, 0), Site(10000, 0), Site(0, 10000),
          Site(12000, 0)}

\* what a statement can put in the column location itself: nothing, or
\* the point 41.7151, 44.8271
StatementLocations ==
    {Null, Some(ST_MakePoint(Site(0, 0).longitude, Site(0, 0).latitude))}

\* a write of table places resets the history of searches
Written == lastSearch' = Null

\* INSERT INTO places (..., type, latitude, longitude, ...): the trigger
\* set_location_geography fires BEFORE INSERT, id is the SERIAL
InsertPlace(type, site, location) ==
    /\ Len(placesTable) < MaxRows
    /\ placesTable' = Append(placesTable,
          update_location_geography(
             [id |-> Len(placesTable) + 1, type |-> type,
              latitude |-> site.latitude, longitude |-> site.longitude,
              location |-> location]))
    /\ Written
    /\ UNCHANGED serverVars

\* UPDATE places that leaves the location of NEW as the statement made it:
\* the trigger does not fire
UpdatePlaceWithoutTrigger(id, type, site, location) ==
    /\ id \in DOMAIN placesTable
    /\ placesTable' = [placesTable EXCEPT ![id] =
             [id |-> id, type |-> type,
              latitude |-> site.latitude, longitude |-> site.longitude,
              location |-> location]]
    /\ Written
    /\ UNCHANGED serverVars

\* UPDATE places SET ... WHERE id = $n: the trigger set_location_geography
\* fires BEFORE UPDATE.  location is the column as the statement leaves it:
\* the old value, or one that the statement sets
UpdatePlace(id, type, site, location) ==
    /\ id \in DOMAIN placesTable
    /\ placesTable' = [placesTable EXCEPT ![id] =
          update_location_geography(
             [id |-> id, type |-> type,
              latitude |-> site.latitude, longitude |-> site.longitude,
              location |-> location])]
    /\ Written
    /\ UNCHANGED serverVars

\* a row of the result of get_nearby_places
ResultRow(p, user_lat, user_lng) ==
    [id |-> p.id, type |-> p.type, latitude |-> p.latitude,
     longitude |-> p.longitude,
     distance_meters |-> ST_Distance(The(p.location),
                                     ST_MakePoint(user_lng, user_lat))]

\* the WHERE clause of get_nearby_places
Matching(user_lat, user_lng, radius_meters, place_type) ==
    {i \in DOMAIN placesTable :
        /\ ST_DWithin(The(placesTable[i].location),
                      ST_MakePoint(user_lng, user_lat), radius_meters)
        /\ (place_type = Null \/ placesTable[i].type = The(place_type))}

\* ORDER BY distance_meters ASC
OrderedByDistance(rows) ==
    \A i, j \in DOMAIN rows :
        i < j => rows[i].distance_meters <= rows[j].distance_meters

\* the orders in which a set of rows can come out of the ORDER BY
Orderings(rowSet) ==
    {rows \in [1..Cardinality(rowSet) -> rowSet] :
        /\ \A i, j \in DOMAIN rows : i # j => rows[i] # rows[j]
        /\ OrderedByDistance(rows)}

\* SELECT * FROM get_nearby_places($1, $2, $3, $4): the results the
\* database can return.  ORDER BY names distance_meters only, and rows of
\* equal distance come in an order that SQL leaves to the executor
get_nearby_places(user_lat, user_lng, radius_meters, place_type) ==
    Orderings({ResultRow(placesTable[i], user_lat, user_lng) :
                 i \in Matching(user_lat, user_lng, radius_meters,
                                place_type)})

\* a parsed number of degrees in units of 1e-6 degree
Microdegrees(x) == x.num * Pow10(6 - x.exp)

\* Math.round of a length in tenths of a meter: whole meters
MathRound(d) == (d + 5) \div 10

\* (d / 1000).toFixed(1) of a length in tenths of a meter: the nearest
\* number of tenths of a kilometer, the larger one of two
ToFixed1(d) ==
    LET n == (d + 500) \div 1000
    IN  ToString(n \div 10) \o "." \o ToString(n % 10)

\* a label that turns to kilometers only above 1000 m
DistanceTextAbove(distance_meters) ==
    IF distance_meters > 1000 * 10
      THEN ToFixed1(distance_meters) \o " km"
      ELSE ToString(MathRound(distance_meters)) \o " m"

\* distance_text of getNearbyPlaces
DistanceText(distance_meters) ==
    IF distance_meters >= 1000 * 10
      THEN ToFixed1(distance_meters) \o " km"
      ELSE ToString(MathRound(distance_meters)) \o " m"

\* { ...place, distance: place.distance_meters, distance_text: ... }
FormattedResult(place) ==
    [id |-> place.id, type |-> place.type, latitude |-> place.latitude,
     longitude |-> place.longitude,
     distance_meters |-> place.distance_meters,
     distance |-> place.distance_meters,
     distance_text |-> DistanceText(place.distance_meters)]

\* what pool.query can throw
StorageErrors == {"connection terminated unexpectedly",
                  "function get_nearby_places does not exist"}

-----------------------------------------------------------------------------
(* Part II, continued: the steps of a request *)

\* a request reaches router.get('/nearby', ...)
Receive(q) ==
    /\ pc = "idle"
    /\ req' = Some(q)
    /\ pc' = "validateNearbyQuery"
    /\ UNCHANGED <<validationErrors, dbCalls, res>>

\* the middleware validateNearbyQuery
RunValidateNearbyQuery ==
    /\ pc = "validateNearbyQuery"
    /\ validationErrors' = ValidateNearbyQuery(The(req))
    /\ pc' = "handleValidationErrors"
    /\ UNCHANGED <<req, dbCalls, res>>

\* handleValidationErrors that forgets to stop: it calls next() whatever
\* the errors are
HandleValidationErrorsAlwaysNext ==
    /\ pc = "handleValidationErrors"
    /\ pc' = "getNearbyPlaces"
    /\ UNCHANGED <<req, validationErrors, dbCalls, res>>

\* the middleware handleValidationErrors
HandleValidationErrors ==
    /\ pc = "handleValidationErrors"
    /\ IF validationErrors # <<>>
         THEN /\ res' = Some(Response(400, "Validation Error", "",
                                      validationErrors))
              /\ pc' = "done"
         ELSE /\ pc' = "getNearbyPlaces"
              /\ UNCHANGED res
    /\ UNCHANGED <<req, validationErrors, dbCalls>>

\* getNearbyPlaces that clamps the radius to the reach of the page's slider
GetNearbyPlacesClamped ==
    /\ pc = "getNearbyPlaces"
    /\ dbCalls' = Append(dbCalls,
          [lat |-> ParseFloat(TextOf(The(req).lat)),
           lng |-> ParseFloat(TextOf(The(req).lng)),
           radius |-> IF ParseInt(TextOf(The(req).distance)).num = 0
                        THEN DefaultDistance
                        ELSE IF ParseInt(TextOf(The(req).distance)).num
                                  > SliderMax
                               THEN SliderMax
                               ELSE ParseInt(TextOf(The(req).distance)).num,
           type |-> The(req).type])
    /\ pc' = "query"
    /\ UNCHANGED <<req, validationErrors, res>>

\* getNearbyPlaces up to its await: pool.query of get_nearby_places($1..$4);
\* parseInt(...) || 5000 takes the default for NaN and for 0
GetNearbyPlaces ==
    /\ pc = "getNearbyPlaces"
    /\ dbCalls' = Append(dbCalls,
          [lat |-> ParseFloat(TextOf(The(req).lat)),
           lng |-> ParseFloat(TextOf(The(req).lng)),
           radius |-> IF ParseInt(TextOf(The(req).distance)).num = 0
                        THEN DefaultDistance
                        ELSE ParseInt(TextOf(The(req).distance)).num,
           type |-> The(req).type])
    /\ pc' = "query"
    /\ UNCHANGED <<req, validationErrors, res>>

\* the call that getNearbyPlaces is waiting for: its params are the
\* locals lat, lng, distance and type || null
Awaited == dbCalls[Len(dbCalls)]

\* every result that the database can return for the awaited call
Results ==
    IF pc = "query"
      THEN get_nearby_places(Microdegrees(Awaited.lat),
                             Microdegrees(Awaited.lng),
                             Awaited.radius, Awaited.type)
      ELSE {}

\* a body that reports a search without a match as a failure, as
\* getPlaceById does for an id without a place
NearbyBodyNotFound(rows) ==
    IF rows = <<>>
      THEN Response(404, "Not Found", "No places found nearby", <<>>)
      ELSE [status |-> 200,
            success |-> TRUE,
            count |-> Len(rows),
            search |-> [latitude |-> Awaited.lat,
                        longitude |-> Awaited.lng,
                        radius_meters |-> Awaited.radius,
                        type |-> IF Awaited.type = Null
                                   THEN "all" ELSE The(Awaited.type)],
            data |-> [i \in DOMAIN rows |-> FormattedResult(rows[i])]]

\* the body of the 200 response
NearbyBody(rows) ==
    [status |-> 200,
     success |-> TRUE,
     count |-> Len(rows),
     search |-> [latitude |-> Awaited.lat,
                 longitude |-> Awaited.lng,
                 radius_meters |-> Awaited.radius,
                 type |-> IF Awaited.type = Null THEN "all"
                                                 ELSE The(Awaited.type)],
     data |-> [i \in DOMAIN rows |-> FormattedResult(rows[i])]]

\* the await resumes with result.rows: res.json({ success: true, ... })
QueryReturns(rows) ==
    /\ pc = "query"
    /\ rows \in Results
    /\ res' = Some(NearbyBody(rows))
    /\ lastSearch' = Some([call |-> Awaited, rows |-> rows])
    /\ pc' = "done"
    /\ UNCHANGED <<req, validationErrors, dbCalls, placesTable>>

\* a catch block that passes the failure on to the client
QueryThrowsLeaking(failure) ==
    /\ pc = "query"
    /\ res' = Some(Response(500, "Internal Server Error", failure, <<>>))
    /\ pc' = "done"
    /\ UNCHANGED <<req, validationErrors, dbCalls>>

\* the await throws: the catch block
QueryThrows(failure) ==
    /\ pc = "query"
    /\ res' = Some(Response(500, "Internal Server Error",
                            "Failed to find nearby places", <<>>))
    /\ pc' = "done"
    /\ UNCHANGED <<req, validationErrors, dbCalls>>

\* the response has been sent; the server takes the next request
NextRequest ==
    /\ pc = "done"
    /\ pc' = "idle"
    /\ req' = Null
    /\ validationErrors' = <<>>
    /\ dbCalls' = <<>>
    /\ res' = Null

NextNearby ==
    \/ \E q \in Queries : Receive(q) /\ UNCHANGED <<clientVars, storeVars, restVars>>
    \/ RunValidateNearbyQuery /\ UNCHANGED <<clientVars, storeVars, restVars>>
    \/ HandleValidationErrors /\ UNCHANGED <<clientVars, storeVars, restVars>>
    \/ GetNearbyPlaces /\ UNCHANGED <<clientVars, storeVars, restVars>>
    \/ \E rows \in Results : QueryReturns(rows) /\ UNCHANGED <<clientVars, restVars>>
    \/ \E failure \in StorageErrors :
          QueryThrows(failure) /\ UNCHANGED <<clientVars, storeVars, restVars>>

SpecNearby == Init /\ [][NextNearby]_vars

\* the searches sent while the table is being written: around the center
\* of the sites, with the default radius, 1000 m or the invalid 99 m, for
\* every type or for restaurants
SearchQueries ==
    [lat : {T(<<"4", "1", ".", "7", "1", "5", "1">>)},
     lng : {T(<<"4", "4", ".", "8", "2", "7", "1">>)},
     distance : {Null, T(<<"1", "0", "0", "0">>), T(<<"9", "9">>)},
     type : {Null, T("restaurant")}]

\* the nearby endpoint serving one request after the other while rows of
\* places are inserted and updated
NextSearch ==
    \/ \E type \in PlaceTypes, site \in Sites,
          location \in StatementLocations :
          InsertPlace(type, site, location) /\ UNCHANGED <<clientVars, restVars>>
    \/ \E id \in DOMAIN placesTable, type \in PlaceTypes, site \in Sites :
          \E location \in {placesTable[id].location} \cup StatementLocations :
             UpdatePlace(id, type, site, location) /\ UNCHANGED <<clientVars, restVars>>
    \/ \E q \in SearchQueries :
          Receive(q) /\ UNCHANGED <<clientVars, storeVars, restVars>>
    \/ RunValidateNearbyQuery /\ UNCHANGED <<clientVars, storeVars, restVars>>
    \/ HandleValidationErrors /\ UNCHANGED <<clientVars, storeVars, restVars>>
    \/ GetNearbyPlaces /\ UNCHANGED <<clientVars, storeVars, restVars>>
    \/ \E rows \in Results : QueryReturns(rows) /\ UNCHANGED <<clientVars, restVars>>
    \/ \E failure \in StorageErrors :
          QueryThrows(failure) /\ UNCHANGED <<clientVars, storeVars, restVars>>
    \/ NextRequest /\ UNCHANGED <<clientVars, storeVars, restVars>>

SpecSearch == Init /\ [][NextSearch]_vars

-----------------------------------------------------------------------------
(* Part II, properties of the nearby endpoint *)

\* what each check of the endpoint asks of a parameter
LatPasses(q) == q.lat # Null /\ IsFloat(The(q.lat), MinLatitude, MaxLatitude)

LngPasses(q) == q.lng # Null /\ IsFloat(The(q.lng), MinLongitude, MaxLongitude)

DistancePasses(q) ==
    q.distance = Null \/ IsInt(The(q.distance), MinDistance, MaxDistance)

TypePasses(q) == q.type = Null \/ The(q.type) \in PlaceTypes

FailingFields(q) ==
    (IF LatPasses(q) THEN {} ELSE {"lat"})
    \cup (IF LngPasses(q) THEN {} ELSE {"lng"})
    \cup (IF DistancePasses(q) THEN {} ELSE {"distance"})
    \cup (IF TypePasses(q) THEN {} ELSE {"type"})

\* C10: validation runs before the spatial lookup: get_nearby_places is
\* called only for a request whose lat, lng, distance and type all passed,
\* and a request with a failing parameter is answered 400 with messages
\* attributed to exactly the failing fields, without any call.
C10_ValidationBeforeLookup ==
    /\ dbCalls # <<>> => (req # Null /\ FailingFields(The(req)) = {})
    /\ (pc \in {"getNearbyPlaces", "query"}) => FailingFields(The(req)) = {}
    /\ (pc = "done" /\ FailingFields(The(req)) # {}) =>
          /\ The(res).status = 400
          /\ dbCalls = <<>>
          /\ {The(res).errors[i].field : i \in DOMAIN The(res).errors}
                = FailingFields(The(req))
    /\ (res # Null /\ The(res).status = 400) =>
          /\ FailingFields(The(req)) # {}
          /\ dbCalls = <<>>
    /\ Len(dbCalls) > 0 => pc \in {"query", "done"}

\* C10 witness: a request whose only fault is a radius of 99 was answered
\* 400 for the field distance without a call of the spatial function
C10_Witness ==
    /\ pc = "done"
    /\ The(req).distance = T(<<"9", "9">>)
    /\ FailingFields(The(req)) = {"distance"}
    /\ The(res).status = 400
    /\ Len(The(res).errors) = 1
    /\ The(res).errors[1].field = "distance"
    /\ dbCalls = <<>>

\* the request was answered 400 with an error attributed to the field
Rejected(field) ==
    /\ res # Null
    /\ The(res).status = 400
    /\ \E i \in DOMAIN The(res).errors : The(res).errors[i].field = field

\* the request has passed handleValidationErrors or was answered by it
Validated == pc \in {"getNearbyPlaces", "query", "done"}

\* C11: a supplied radius is accepted if and only if it is an integer of
\* 100 to 50000: 99 and 50001 are rejected with an error attributed to the
\* field distance, 100 and 50000 are not; a latitude outside -90..90, a
\* longitude outside -180..180 and a type other than restaurant or mosque
\* are rejected with an error attributed to their field.
C11_RadiusAcceptedIffInRange ==
    Validated =>
       LET q == The(req)
       IN  /\ q.distance # Null =>
                (Rejected("distance") <=>
                    ~(/\ IntSyntax(The(q.distance))
                      /\ ParseInt(The(q.distance)).num >= 100
                      /\ ParseInt(The(q.distance)).num <= 50000))
           /\ q.distance \in {T(<<"9", "9">>),
                              T(<<"5", "0", "0", "0", "1">>)}
                 => Rejected("distance")
           /\ q.distance \in {T(<<"1", "0", "0">>),
                              T(<<"5", "0", "0", "0", "0">>)}
                 => ~Rejected("distance")
           /\ (/\ q.lat # Null
               /\ FloatSyntax(The(q.lat))
               /\ ~Between(ParseFloat(The(q.lat)), 0 - 90, 90))
                 => Rejected("lat")
           /\ (/\ q.lng # Null
               /\ FloatSyntax(The(q.lng))
               /\ ~Between(ParseFloat(The(q.lng)), 0 - 180, 180))
                 => Rejected("lng")
           /\ (q.type # Null /\ The(q.type) \notin {"restaurant", "mosque"})
                 => Rejected("type")
           /\ (res # Null /\ The(res).status = 400) => dbCalls = <<>>

\* C11 witness: a request with a radius of 50001 and nothing else wrong was
\* answered 400 with one error, attributed to the field distance
C11_Witness ==
    /\ pc = "done"
    /\ The(req).distance = T(<<"5", "0", "0", "0", "1">>)
    /\ The(req).lat = T(<<"-", "9", "0">>)
    /\ The(req).lng = T(<<"1", "8", "0">>)
    /\ The(req).type = T("mosque")
    /\ The(res).status = 400
    /\ Len(The(res).errors) = 1
    /\ Rejected("distance")

\* C12: with the radius left out get_nearby_places is called with 5000,
\* with a valid radius r it is called with r, and every 200 response echoes
\* in search.radius_meters the radius that the call was made with.
C12_RadiusDefaultedAndEchoed ==
    /\ (dbCalls # <<>> /\ The(req).distance = Null)
          => dbCalls[1].radius = 5000
    /\ (dbCalls # <<>> /\ The(req).distance # Null)
          => /\ IntSyntax(The(The(req).distance))
             /\ dbCalls[1].radius = DigitsValue(Unsigned(The(The(req).distance)))
    /\ (dbCalls # <<>> /\ The(req).distance = T(<<"5", "0", "0", "0", "0">>))
          => dbCalls[1].radius = 50000
    /\ (dbCalls # <<>> /\ The(req).distance = T(<<"1", "0", "0">>))
          => dbCalls[1].radius = 100
    /\ (res # Null /\ The(res).status = 200)
          => /\ Len(dbCalls) = 1
             /\ The(res).search.radius_meters = dbCalls[1].radius

\* C12 witness: a request without a radius was answered 200 after one call
\* with radius 5000, and the response echoes 5000
C12_Witness ==
    /\ pc = "done"
    /\ The(req).distance = Null
    /\ The(res).status = 200
    /\ Len(dbCalls) = 1
    /\ dbCalls[1].radius = 5000
    /\ The(res).search.radius_meters = 5000

-----------------------------------------------------------------------------
(* Part III, properties of the searches *)

\* the center of the request, as a point
SearchCenter ==
    ST_MakePoint(Microdegrees(ParseFloat(The(The(req).lng))),
                 Microdegrees(ParseFloat(The(The(req).lat))))

\* the radius of the request in tenths of a meter, 5000 m when left out
SearchReach ==
    IF The(req).distance = Null
      THEN 5000 * 10
      ELSE DigitsValue(Unsigned(The(The(req).distance))) * 10

\* the stored places that a search of the request has to find
Eligible ==
    {i \in DOMAIN placesTable :
        /\ Abs(The(placesTable[i].location).x - SearchCenter.x)
             + Abs(The(placesTable[i].location).y - SearchCenter.y)
               <= SearchReach
        /\ (The(req).type = Null
              \/ placesTable[i].type = The(The(req).type))}

\* C13: a nearby search returns exactly the stored places whose distance
\* from the center is at most the radius (one at the radius is in, one
\* beyond it is out) and, when a type is given, whose type is that type;
\* each of them once.
C13_ExactlyWithinRadiusAndType ==
    [][\A rows \in Results :
          QueryReturns(rows) =>
             /\ Ids(The(res').data) = {placesTable[i].id : i \in Eligible}
             /\ Len(The(res').data) = Cardinality(Eligible)
             /\ The(res').count = Cardinality(Eligible)]_vars

\* C13 witness: of two restaurants, 1000 m and 1200 m from the center, a
\* search for restaurants within 1000 m has returned the first one only
C13_Witness ==
    /\ pc = "done"
    /\ The(req).distance = T(<<"1", "0", "0", "0">>)
    /\ The(req).type = T("restaurant")
    /\ The(res).status = 200
    /\ lastSearch # Null
    /\ Len(placesTable) = 2
    /\ placesTable[1].type = "restaurant"
    /\ placesTable[1].latitude = Site(10000, 0).latitude
    /\ placesTable[2].type = "restaurant"
    /\ placesTable[2].latitude = Site(12000, 0).latitude
    /\ Len(The(res).data) = 1
    /\ The(res).data[1].id = 1
    /\ The(res).data[1].distance_meters = 1000 * 10

\* radii, centers and types for which searches are compared
SampleRadii == {850, 1000, 1200, 5000}

SampleCenters == {Site(0, 0), Site(10000, 0)}

SampleTypes == {Null, Some("restaurant"), Some("mosque")}

\* C14: for radii r1 < r2, the same center, the same type and the same
\* stored places, the places that a search returns for r1 are among those
\* that a search returns for r2.
C14_MonotoneInRadius ==
    \A c \in SampleCenters, type \in SampleTypes, r1, r2 \in SampleRadii :
       r1 < r2 =>
          \A rows1 \in get_nearby_places(c.latitude, c.longitude, r1, type),
             rows2 \in get_nearby_places(c.latitude, c.longitude, r2, type) :
             Ids(rows1) \subseteq Ids(rows2)

\* C14 witness: a search with the default radius of 5000 m has returned
\* two places, of which a search within 1000 m returns only one
C14_Witness ==
    /\ pc = "done"
    /\ The(req).distance = Null
    /\ The(req).type = Null
    /\ The(res).status = 200
    /\ lastSearch # Null
    /\ Len(The(res).data) = 2
    /\ \A rows \in get_nearby_places(Site(0, 0).latitude,
                                     Site(0, 0).longitude, 1000, Null) :
          /\ Len(rows) = 1
          /\ Ids(rows) \subseteq Ids(The(res).data)

\* C15 as stated: the data of every nearby response is in ascending order
\* of distance, and rows of equal distance are in ascending order of id.
C15_OrderedByDistanceThenId ==
    (res # Null /\ The(res).status = 200) =>
       \A i, j \in DOMAIN The(res).data :
          i < j =>
             \/ The(res).data[i].distance < The(res).data[j].distance
             \/ /\ The(res).data[i].distance = The(res).data[j].distance
                /\ The(res).data[i].id < The(res).data[j].id

\* C16 as stated: a search that repeats the call of the latest search, with
\* no write of a place in between, returns the same rows in the same order.
C16_RepeatedSearchIdentical ==
    [][\A rows \in Results :
          (/\ QueryReturns(rows)
           /\ lastSearch # Null
           /\ The(lastSearch).call = Awaited)
          => rows = The(lastSearch).rows]_vars

\* the notation of n tenths of a kilometer, and of n meters
KmLabel(n) == ToString(n \div 10) \o "." \o ToString(n % 10) \o " km"

MLabel(n) == ToString(n) \o " m"

\* text is the label of a distance d (in tenths of a meter): from 1000 m
\* on the nearest number of tenths of a kilometer, below 1000 m the nearest
\* number of meters
LabelOf(text, d) ==
    IF d >= 10000
      THEN \E n \in (d \div 1000)..(d \div 1000 + 1) :
              /\ text = KmLabel(n)
              /\ 2 * Abs(n * 1000 - d) <= 1000
      ELSE \E n \in (d \div 10)..(d \div 10 + 1) :
              /\ text = MLabel(n)
              /\ 2 * Abs(n * 10 - d) <= 10

-----------------------------------------------------------------------------
(* Part II, properties of the nearby endpoint, continued *)

\* C18: when the call of get_nearby_places fails the response is 500 with
\* one fixed body that names nothing of the failure, and the call is not
\* made again: a request makes at most one call.
C18_StorageFailureIsGeneric500 ==
    /\ Len(dbCalls) <= 1
    /\ (res # Null /\ The(res).status \notin {200, 400}) =>
          /\ res = Some([status |-> 500,
                         error |-> "Internal Server Error",
                         message |-> "Failed to find nearby places",
                         errors |-> <<>>])
          /\ pc = "done"
          /\ Len(dbCalls) = 1
    /\ (res # Null /\ The(res).status = 500) =>
          \A failure \in StorageErrors :
             /\ The(res).message # failure
             /\ The(res).error # failure

\* C18 witness: the one call made for a valid request has failed and the
\* request was answered 500
C18_Witness ==
    /\ pc = "done"
    /\ FailingFields(The(req)) = {}
    /\ Len(dbCalls) = 1
    /\ The(res).status = 500
    /\ The(res).message = "Failed to find nearby places"

-----------------------------------------------------------------------------
(* Part III, properties of the table *)

\* the length of the grid path from a row's latitude and longitude to the
\* center of the request
FromCenter(p) ==
    Abs(p.longitude - SearchCenter.x) + Abs(p.latitude - SearchCenter.y)

\* C19: after every insert and update, the location of every stored place
\* is the point of that row's longitude and latitude, and a search tests
\* and reports the distance of a place from the latitude and longitude
\* that the row has when the search runs.
C19_LocationFollowsPosition ==
    [][/\ \A i \in DOMAIN placesTable' :
             placesTable'[i].location =
                Some([x |-> placesTable'[i].longitude,
                      y |-> placesTable'[i].latitude])
       /\ \A rows \in Results :
             QueryReturns(rows) =>
                /\ Ids(rows) = {placesTable[i].id :
                                  i \in {k \in DOMAIN placesTable :
                                           /\ FromCenter(placesTable[k])
                                                <= SearchReach
                                           /\ \/ The(req).type = Null
                                              \/ placesTable[k].type
                                                   = The(The(req).type)}}
                /\ \A k \in DOMAIN rows :
                      The(res').data[k].distance_meters
                         = FromCenter(placesTable[rows[k].id])]_vars

\* C19 witness: the only place was found 850 m from the center and has
\* since been moved to 1200 m with an UPDATE that also set location to
\* another point; its location is the point of the new position
C19_Witness ==
    /\ pc = "done"
    /\ The(res).status = 200
    /\ Len(The(res).data) = 1
    /\ The(res).data[1].id = 1
    /\ The(res).data[1].distance_meters = 8500
    /\ lastSearch = Null
    /\ Len(placesTable) = 1
    /\ placesTable[1].latitude = Site(12000, 0).latitude
    /\ placesTable[1].longitude = Site(12000, 0).longitude
    /\ placesTable[1].location =
          Some(ST_MakePoint(Site(12000, 0).longitude, Site(12000, 0).latitude))

-----------------------------------------------------------------------------
(* Part IV: the routes and authenticateToken *)

(* A request is [route, authorization, valid]: the route it matches, its
   Authorization header (none, or a scheme and a token) and whether its
   body or query passes the validation chains of the route, and user, the
   property that authenticateToken attaches.  pc is the handler of the
   route that runs next.  A response names the handler that
   sent it. *)

\* routes/places.ts: the handlers of each route, in order
PublicRoutes ==
    [r \in {"GET /api/places", "GET /api/places/nearby",
            "GET /api/places/cities", "GET /api/places/statistics",
            "GET /api/places/:id"} |->
       CASE r = "GET /api/places" -> <<"getAllPlaces">>
         [] r = "GET /api/places/nearby" ->
               <<"validateNearbyQuery", "handleValidationErrors",
                 "getNearbyPlaces">>
         [] r = "GET /api/places/cities" -> <<"getCities">>
         [] r = "GET /api/places/statistics" -> <<"getStatistics">>
         [] r = "GET /api/places/:id" -> <<"getPlaceById">>]

\* routes/admin.ts: the handlers of each route, in order
AdminRoutes ==
    [r \in {"POST /api/admin/login", "GET /api/admin/me",
            "GET /api/admin/dashboard", "POST /api/admin/places",
            "PUT /api/admin/places/:id",
            "PATCH /api/admin/places/:id/verify",
            "DELETE /api/admin/places/:id"} |->
       CASE r = "POST /api/admin/login" ->
               <<"validateLogin", "handleValidationErrors", "adminLogin">>
         [] r = "GET /api/admin/me" ->
               <<"authenticateToken", "getCurrentUser">>
         [] r = "GET /api/admin/dashboard" ->
               <<"authenticateToken", "getDashboardStats">>
         [] r = "POST /api/admin/places" ->
               <<"authenticateToken", "validateCreatePlace",
                 "handleValidationErrors", "createPlace">>
         [] r = "PUT /api/admin/places/:id" ->
               <<"authenticateToken", "validateUpdatePlace",
                 "handleValidationErrors", "updatePlace">>
         [] r = "PATCH /api/admin/places/:id/verify" ->
               <<"authenticateToken", "toggleVerified">>
         [] r = "DELETE /api/admin/places/:id" ->
               <<"authenticateToken", "deletePlace">>]

\* app.use('/api/places', placesRouter); app.use('/api/admin', adminRouter)
Handlers(route) ==
    IF route \in DOMAIN PublicRoutes THEN PublicRoutes[route]
                                     ELSE AdminRoutes[route]

Routes == DOMAIN PublicRoutes \cup DOMAIN AdminRoutes

\* the last handler of a route
Controller(route) == Handlers(route)[Len(Handlers(route))]

\* next(): the handler that follows the one that is running
Following(route, handler) ==
    Handlers(route)[1 + CHOOSE i \in DOMAIN Handlers(route) :
                           Handlers(route)[i] = handler]

ValidationChains == {"validateNearbyQuery", "validateLogin",
                     "validateCreatePlace", "validateUpdatePlace"}

\* a token: empty text, text that is no JWT, or a JWT with the secret it
\* was signed with, whether it has expired, its issuer and audience and
\* the user it was made for
Tokens ==
    [form : {"empty", "malformed", "jwt"},
     secret : {"JWT_SECRET", "another secret"},
     expired : BOOLEAN,
     issuer : {"halalmap-georgia", "another issuer"},
     audience : {"halalmap-admin"},
     userId : {1, 2}]

\* the payload that jwt.verify returns for a token it accepts
Decoded(token) ==
    [userId |-> token.userId, iss |-> token.issuer, aud |-> token.audience]

\* the Authorization header: none, or "<scheme> <token>"
AuthorizationHeaders ==
    {Null} \cup {Some([scheme |-> s, token |-> t]) :
                   s \in {"Bearer", "bearer", "Basic"}, t \in Tokens}

\* config/auth.ts verifyToken: jwt.verify(token, JWT_SECRET, { issuer,
\* audience }); "" when the token is accepted, else the message thrown
VerifyToken(token) ==
    IF token.form # "jwt" \/ token.secret # "JWT_SECRET"
      THEN "Invalid token"
      ELSE IF token.expired
             THEN "Token has expired"
             ELSE IF token.issuer # "halalmap-georgia"
                     \/ token.audience # "halalmap-admin"
                    THEN "Invalid token"
                    ELSE ""

Reply(status, err, msg, handler) ==
    [status |-> status, error |-> err, message |-> msg, handler |-> handler]

\* express matches the request with a route and runs its first handler
Dispatch(route, authorization, valid) ==
    /\ pc = "idle"
    /\ req' = Some([route |-> route, authorization |-> authorization,
                    valid |-> valid, user |-> Null])
    /\ pc' = Handlers(route)[1]
    /\ UNCHANGED <<validationErrors, dbCalls, res>>

\* middleware/auth.ts optionalAuth in the place of authenticateToken: the
\* request goes on whatever its header is
AuthenticateTokenOptional ==
    /\ pc = "authenticateToken"
    /\ pc' = Following(The(req).route, "authenticateToken")
    /\ UNCHANGED <<req, validationErrors, dbCalls, res>>

\* authenticateToken that answers 401 whatever is wrong with the request,
\* and attaches no user
AuthenticateTokenUnauthorized ==
    /\ pc = "authenticateToken"
    /\ LET authHeader == The(req).authorization
       IN  IF /\ authHeader # Null
              /\ The(authHeader).scheme = "Bearer"
              /\ The(authHeader).token.form # "empty"
              /\ VerifyToken(The(authHeader).token) = ""
             THEN /\ pc' = Following(The(req).route, "authenticateToken")
                  /\ UNCHANGED res
             ELSE /\ res' = Some(Reply(401, "Unauthorized", "Unauthorized",
                                       "authenticateToken"))
                  /\ pc' = "done"
    /\ UNCHANGED <<req, validationErrors, dbCalls>>

\* middleware/auth.ts authenticateToken
AuthenticateToken ==
    /\ pc = "authenticateToken"
    /\ LET authHeader == The(req).authorization
       IN  IF authHeader = Null
             THEN /\ res' = Some(Reply(401, "Unauthorized",
                                       "No authorization token provided",
                                       "authenticateToken"))
                  /\ pc' = "done"
                  /\ UNCHANGED req
             ELSE IF The(authHeader).scheme # "Bearer"
                    THEN /\ res' = Some(Reply(401, "Unauthorized",
                              "Invalid authorization format. Use: Bearer <token>",
                              "authenticateToken"))
                         /\ pc' = "done"
                         /\ UNCHANGED req
                    ELSE IF The(authHeader).token.form = "empty"
                           THEN /\ res' = Some(Reply(401, "Unauthorized",
                                                     "Token is missing",
                                                     "authenticateToken"))
                                /\ pc' = "done"
                                /\ UNCHANGED req
                           ELSE IF VerifyToken(The(authHeader).token) = ""
                                  THEN /\ req' = Some([The(req) EXCEPT !.user =
                                              Some(Decoded(The(authHeader).token))])
                                       /\ pc' = Following(The(req).route,
                                                   "authenticateToken")
                                       /\ UNCHANGED res
                                  ELSE /\ res' = Some(Reply(403, "Forbidden",
                                              VerifyToken(The(authHeader).token),
                                              "authenticateToken"))
                                       /\ pc' = "done"
                                       /\ UNCHANGED req
    /\ UNCHANGED <<validationErrors, dbCalls>>

\* the validation chains of a route collect their errors in the request
RunValidationChains ==
    /\ pc \in ValidationChains
    /\ validationErrors' =
          IF The(req).valid THEN <<>>
                            ELSE <<ValidationError("body", "Invalid value")>>
    /\ pc' = Following(The(req).route, pc)
    /\ UNCHANGED <<req, dbCalls, res>>

\* the middleware handleValidationErrors on any route
HandleValidationErrorsOnRoute ==
    /\ pc = "handleValidationErrors"
    /\ IF validationErrors # <<>>
         THEN /\ res' = Some(Reply(400, "Validation Error", "",
                                   "handleValidationErrors"))
              /\ pc' = "done"
         ELSE /\ pc' = Following(The(req).route, "handleValidationErrors")
              /\ UNCHANGED res
    /\ UNCHANGED <<req, validationErrors, dbCalls>>

\* the statuses with which a controller answers
ControllerStatuses == {200, 201, 401, 404, 500}

\* the controller of the route runs and answers
RunController(status) ==
    /\ req # Null
    /\ pc = Controller(The(req).route)
    /\ res' = Some(Reply(status, "", "", pc))
    /\ pc' = "done"
    /\ UNCHANGED <<req, validationErrors, dbCalls>>

NextAccess ==
    \/ \E route \in Routes, authorization \in AuthorizationHeaders,
          valid \in BOOLEAN :
          Dispatch(route, authorization, valid)
             /\ UNCHANGED <<clientVars, storeVars, restVars>>
    \/ AuthenticateToken /\ UNCHANGED <<clientVars, storeVars, restVars>>
    \/ RunValidationChains /\ UNCHANGED <<clientVars, storeVars, restVars>>
    \/ HandleValidationErrorsOnRoute /\ UNCHANGED <<clientVars, storeVars, restVars>>
    \/ \E status \in ControllerStatuses :
          RunController(status) /\ UNCHANGED <<clientVars, storeVars, restVars>>
    \/ NextRequest /\ UNCHANGED <<clientVars, storeVars, restVars>>

SpecAccess == Init /\ [][NextAccess]_vars

-----------------------------------------------------------------------------
(* Part IV, properties of the routes *)

\* the controllers that create, update, verify or delete a place
PlaceMutatingControllers ==
    {"createPlace", "updatePlace", "toggleVerified", "deletePlace"}

\* the request carries "Bearer <token>" with a token that jwt.verify
\* accepts: signed with the secret, not expired, of this issuer and audience
HasValidToken ==
    /\ The(req).authorization # Null
    /\ The(The(req).authorization).scheme = "Bearer"
    /\ The(The(req).authorization).token.form = "jwt"
    /\ The(The(req).authorization).token.secret = "JWT_SECRET"
    /\ ~The(The(req).authorization).token.expired
    /\ The(The(req).authorization).token.issuer = "halalmap-georgia"
    /\ The(The(req).authorization).token.audience = "halalmap-admin"

\* the controller of the request's route is running or has answered
AtController ==
    \/ pc = Controller(The(req).route)
    \/ pc = "done" /\ The(res).handler = Controller(The(req).route)

\* C20: a request to a public place route reaches its controller whatever
\* its Authorization header is (on /nearby, when its query is valid), and
\* is never answered by authenticateToken; a controller that creates,
\* updates, verifies or deletes a place runs only for a request whose
\* token authenticateToken has accepted.
C20_AccessControl ==
    req # Null =>
       /\ The(req).route \in {"GET /api/places", "GET /api/places/cities",
                              "GET /api/places/statistics",
                              "GET /api/places/:id"}
             => AtController
       /\ The(req).route = "GET /api/places/nearby" =>
             /\ pc # "authenticateToken"
             /\ pc = "done" => (AtController <=> The(req).valid)
             /\ res # Null => The(res).handler # "authenticateToken"
       /\ (pc \in PlaceMutatingControllers
             \/ (res # Null /\ The(res).handler \in PlaceMutatingControllers))
             => HasValidToken
       /\ (/\ Controller(The(req).route) \in PlaceMutatingControllers
           /\ ~HasValidToken
           /\ pc = "done")
             => /\ The(res).handler = "authenticateToken"
                /\ The(res).status \in {401, 403}

\* C20 witness: a request to delete a place with an expired token was
\* answered 403 by authenticateToken
C20_Witness ==
    /\ pc = "done"
    /\ The(req).route = "DELETE /api/admin/places/:id"
    /\ The(req).authorization # Null
    /\ The(The(req).authorization).scheme = "Bearer"
    /\ The(The(req).authorization).token.form = "jwt"
    /\ The(The(req).authorization).token.secret = "JWT_SECRET"
    /\ The(The(req).authorization).token.expired
    /\ The(res).status = 403
    /\ The(res).message = "Token has expired"
    /\ The(res).handler = "authenticateToken"

-----------------------------------------------------------------------------
(* Part V: GET /api/places, the listing endpoint *)

(* Here a row of places also has the columns city and verified.  A city is
   none or a text, and a text is a sequence of one-character strings. *)

Tbilisi == <<"T", "b", "i", "l", "i", "s", "i">>

Batumi == <<"B", "a", "t", "u", "m", "i">>

\* the cities of the seed data, and no city
SeedCities == {Null, Some(Tbilisi), Some(Batumi)}

\* the lower-case form of a character, for the letters that the texts of
\* the model are made of
Lower(c) ==
    CASE c = "B" -> "b"
      [] c = "I" -> "i"
      [] c = "L" -> "l"
      [] c = "T" -> "t"
      [] OTHER -> c

\* text ILIKE pattern: % stands for any text, _ for any one character, and
\* a letter matches in either case
RECURSIVE ILike(_, _)
ILike(text, pattern) ==
    IF pattern = <<>>
      THEN text = <<>>
      ELSE IF Head(pattern) = "%"
             THEN \/ ILike(text, Tail(pattern))
                  \/ text # <<>> /\ ILike(Tail(text), pattern)
             ELSE /\ text # <<>>
                  /\ \/ Head(pattern) = "_"
                     \/ Lower(Head(text)) = Lower(Head(pattern))
                  /\ ILike(Tail(text), Tail(pattern))

\* INSERT INTO places (name, type, latitude, longitude, city, ..., verified)
\* of the seed data: a place at 41.7151, 44.8271
SeedPlace(type, city, verified) ==
    /\ Len(placesTable) < MaxRows
    /\ placesTable' = Append(placesTable,
          update_location_geography(
             [id |-> Len(placesTable) + 1, type |-> type,
              latitude |-> Site(0, 0).latitude,
              longitude |-> Site(0, 0).longitude,
              location |-> Null, city |-> city, verified |-> verified]))
    /\ Written
    /\ UNCHANGED serverVars

\* the query strings explored: req.query.type, .verified and .city
ListingQueries ==
    [type : {Null, T(""), T("restaurant"), T("cafe")},
     verified : {Null, T("true"), T("false")},
     city : {Null, T(<<>>), T(<<"B", "I", "L">>), T(<<"t", "u", "m">>),
             T(<<"x">>), T(<<"_">>)}]

\* a request reaches router.get('/', getAllPlaces)
ReceiveListing(q) ==
    /\ pc = "idle"
    /\ req' = Some(q)
    /\ pc' = "getAllPlaces"
    /\ UNCHANGED <<validationErrors, dbCalls, res>>

\* if (x): a parameter that is present and not the empty string
Truthy(param) == param # Null /\ Len(The(param)) > 0

\* getAllPlaces up to its await: the params of the dynamic query, none for
\* a condition that is left out
GetAllPlaces ==
    /\ pc = "getAllPlaces"
    /\ dbCalls' = Append(dbCalls,
          [type |-> IF The(req).type \notin {Null, T("")}
                      THEN The(req).type ELSE Null,
           verified |-> IF The(req).verified # Null
                          THEN Some(The(The(req).verified) = "true")
                          ELSE Null,
           city |-> IF Truthy(The(req).city)
                      THEN Some(<<"%">> \o The(The(req).city) \o <<"%">>)
                      ELSE Null])
    /\ pc' = "listing"
    /\ UNCHANGED <<req, validationErrors, res>>

\* WHERE 1=1 AND type = $n AND verified = $n AND city ILIKE $n
Listed(params) ==
    {i \in DOMAIN placesTable :
        /\ params.type = Null \/ placesTable[i].type = The(params.type)
        /\ params.verified = Null
              \/ placesTable[i].verified = The(params.verified)
        /\ params.city = Null
              \/ /\ placesTable[i].city # Null
                 /\ ILike(The(placesTable[i].city), The(params.city))}

\* the place of a city in ORDER BY city: null comes last
CityRank(city) ==
    CASE city = Some(Batumi) -> 1
      [] city = Some(Tbilisi) -> 2
      [] OTHER -> 3

\* ORDER BY city, name: the orders in which a set of rows can come out,
\* the names of the places being any
OrderedByCity(rowSet) ==
    {rows \in [1..Cardinality(rowSet) -> rowSet] :
        /\ \A i, j \in DOMAIN rows : i # j => rows[i] # rows[j]
        /\ \A i, j \in DOMAIN rows :
              i < j => CityRank(rows[i].city) <= CityRank(rows[j].city)}

\* every result that the database can return for the awaited listing
ListingResults ==
    IF pc = "listing"
      THEN OrderedByCity({placesTable[i] : i \in Listed(Awaited)})
      ELSE {}

\* the await resumes with result.rows: res.json({ success, count, data })
ListingReturns(rows) ==
    /\ pc = "listing"
    /\ rows \in ListingResults
    /\ res' = Some([status |-> 200, success |-> TRUE, count |-> Len(rows),
                    data |-> rows])
    /\ pc' = "done"
    /\ UNCHANGED <<req, validationErrors, dbCalls>>

\* the await throws: the catch block
ListingThrows(failure) ==
    /\ pc = "listing"
    /\ res' = Some(Response(500, "Internal Server Error",
                            "Failed to fetch places", <<>>))
    /\ pc' = "done"
    /\ UNCHANGED <<req, validationErrors, dbCalls>>

\* the listing endpoint serving one request after the other while places
\* are inserted
NextListing ==
    \/ \E type \in PlaceTypes, city \in SeedCities, verified \in BOOLEAN :
          SeedPlace(type, city, verified) /\ UNCHANGED <<clientVars, restVars>>
    \/ \E q \in ListingQueries :
          ReceiveListing(q) /\ UNCHANGED <<clientVars, storeVars, restVars>>
    \/ GetAllPlaces /\ UNCHANGED <<clientVars, storeVars, restVars>>
    \/ \E rows \in ListingResults :
          ListingReturns(rows) /\ UNCHANGED <<clientVars, storeVars, restVars>>
    \/ \E failure \in StorageErrors :
          ListingThrows(failure) /\ UNCHANGED <<clientVars, storeVars, restVars>>
    \/ NextRequest /\ UNCHANGED <<clientVars, storeVars, restVars>>

SpecListing == Init /\ [][NextListing]_vars

-----------------------------------------------------------------------------
(* Part V, properties of the listing endpoint *)

\* the text in lower case
LowerText(text) == [i \in DOMAIN text |-> Lower(text[i])]

\* the text contains the other one, whatever the case of the letters
ContainsIgnoringCase(text, sub) ==
    \E i \in 1..(Len(text) + 1) :
        /\ i + Len(sub) - 1 <= Len(text)
        /\ SubSeq(LowerText(text), i, i + Len(sub) - 1) = LowerText(sub)

\* a filter counts as supplied when its parameter is present and not empty
Supplied(param) == param # Null /\ Len(The(param)) > 0

\* the stored places that satisfy every filter supplied with the request
Satisfying(q) ==
    {i \in DOMAIN placesTable :
        /\ Supplied(q.type) => placesTable[i].type = The(q.type)
        /\ Supplied(q.verified) =>
              placesTable[i].verified = (The(q.verified) = "true")
        /\ Supplied(q.city) =>
              /\ placesTable[i].city # Null
              /\ ContainsIgnoringCase(The(placesTable[i].city),
                                      The(q.city))}

\* C21 as stated: a successful listing returns exactly the stored places
\* that satisfy every supplied filter (type equal, verified equal, city
\* containing the given text in either case), all places when no filter is
\* supplied, and its rows carry no distance and no distance label.
C21_ListingExactlyFiltered ==
    [][(pc = "listing" /\ pc' = "done" /\ The(res').status = 200) =>
          LET data == The(res').data
          IN  /\ {data[k] : k \in DOMAIN data} =
                    {placesTable[i] : i \in Satisfying(The(req))}
              /\ Len(data) = Cardinality(Satisfying(The(req)))
              /\ \A k \in DOMAIN data :
                    {"distance", "distance_text", "distance_meters"}
                       \cap DOMAIN data[k] = {}]_vars

-----------------------------------------------------------------------------
(* Part III, properties of the searches, continued *)

\* C22: a nearby search is answered with success true, a count equal to
\* the length of data and the echoed search parameters (center, radius,
\* and the category or 'all' when none was given); when no stored place
\* matches it is still a success, with count 0 and an empty data sequence.
C22_EmptyResultIsSuccess ==
    [][\A rows \in Results :
          QueryReturns(rows) =>
             LET body == The(res')
             IN  /\ body.status = 200
                 /\ body.success
                 /\ body.count = Len(body.data)
                 /\ body.search =
                       [latitude |-> ParseFloat(The(The(req).lat)),
                        longitude |-> ParseFloat(The(The(req).lng)),
                        radius_meters |-> SearchReach \div 10,
                        type |-> IF The(req).type = Null
                                   THEN "all" ELSE The(The(req).type)]
                 /\ Eligible = {} => (body.count = 0 /\ body.data = <<>>)]_vars

\* C22 witness: the table holds two mosques 850 m from the center, and a
\* search for restaurants within 1000 m was answered 200 with count 0, no
\* data and the echoed parameters
C22_Witness ==
    /\ pc = "done"
    /\ lastSearch # Null
    /\ Len(placesTable) = 2
    /\ \A i \in DOMAIN placesTable :
          /\ placesTable[i].type = "mosque"
          /\ placesTable[i].latitude = Site(8500, 0).latitude
    /\ The(req).type = T("restaurant")
    /\ The(req).distance = T(<<"1", "0", "0", "0">>)
    /\ The(res).status = 200
    /\ The(res).success
    /\ The(res).count = 0
    /\ The(res).data = <<>>
    /\ The(res).search.type = "restaurant"
    /\ The(res).search.radius_meters = 1000

-----------------------------------------------------------------------------
(* Part I, properties of HomePage, continued *)

\* C23 as stated: the query started by a filter change carries the new
\* category and radius, not the values stored before the change, so that
\* the result displayed once it has resolved is one for the stored filters.
C23_FilterChangeQueriesNewFilters ==
    [][\A newFilters \in FilterValues :
          HandleFilterChange(newFilters) =>
              \E q \in pendingFetches' :
                 /\ Started(q)
                 /\ q = IF userLocation # Null
                          THEN NearbyRequest(q.id, The(userLocation),
                                             newFilters)
                          ELSE ListingRequest(q.id, newFilters)]_vars

-----------------------------------------------------------------------------
(* Part IV, properties of authenticateToken *)

\* authenticateToken has called next(): the following handler of the route
\* runs next and no response was sent
CalledNext ==
    /\ pc' = Following(The(req).route, "authenticateToken")
    /\ res' = Null

\* authenticateToken has sent a response with the status and ended the
\* request
Sent(status) ==
    /\ pc' = "done"
    /\ res' # Null
    /\ The(res').handler = "authenticateToken"
    /\ The(res').status = status

\* C24: authenticateToken either calls next() or sends a response, never
\* both and never neither.  It calls next() only for a header 'Bearer '
\* followed by a non-empty token that verifies, and req.user is then the
\* decoded payload; a missing header, a header that does not start with
\* 'Bearer ' and an empty token are answered 401, a token that fails
\* verification (invalid or expired) is answered 403.
C24_NextOrResponse ==
    [][(pc = "authenticateToken" /\ pc' # pc) =>
          LET authHeader == The(req).authorization
              malformed == \/ authHeader = Null
                           \/ The(authHeader).scheme # "Bearer"
                           \/ The(authHeader).token.form = "empty"
          IN  /\ CalledNext \/ Sent(401) \/ Sent(403)
              /\ CalledNext <=> HasValidToken
              /\ CalledNext =>
                    /\ The(req').user =
                          Some(Decoded(The(authHeader).token))
                    /\ The(The(req').user).userId =
                          The(authHeader).token.userId
              /\ ~CalledNext => req' = req
              /\ malformed => Sent(401)
              /\ (~malformed /\ ~HasValidToken) =>
                    /\ Sent(403)
                    /\ The(res').message =
                          IF /\ The(authHeader).token.form = "jwt"
                             /\ The(authHeader).token.secret = "JWT_SECRET"
                             /\ The(authHeader).token.expired
                            THEN "Token has expired" ELSE "Invalid token"]_vars

\* C24 witness: a request with a verified token of user 2 has passed
\* authenticateToken and is at the controller with req.user attached
C24_Witness ==
    /\ req # Null
    /\ The(req).route = "GET /api/admin/me"
    /\ pc = "getCurrentUser"
    /\ res = Null
    /\ HasValidToken
    /\ The(req).user # Null
    /\ The(The(req).user).userId = 2
    /\ The(The(req).authorization).token.userId = 2

\* C26 as stated: the loading flag is true in every state in which a
\* device-location request or a search is outstanding and false when none
\* is, so that the button 'Use My Location', disabled while loading, never
\* starts a second location request while one is outstanding.
C26_LoadingWhileOutstanding ==
    /\ isLoading <=> (pendingFetches # {} \/ pendingLocations # {})
    /\ Cardinality(pendingLocations) <= 1

\* C27: a search that fails leaves the displayed result set, the selected
\* place, the map center, userLocation and the filters unchanged, sets the
\* error message and clears the loading flag; every step that starts a
\* search clears the error message.
C27_FailedSearchKeepsState ==
    [][/\ \A r \in pendingFetches :
             FetchFailed(r) =>
                /\ UNCHANGED <<places, selectedPlace, center, userLocation,
                               filters>>
                /\ error' = Some("Failed to load places. Please try again.")
                /\ isLoading' = FALSE
                /\ pendingFetches' = pendingFetches \ {r}
       /\ nextFetchId' # nextFetchId => error' = Null]_vars

\* C27 witness: with the user located, a place selected and the filters
\* changed, the latest search has failed: the error is set, nothing is
\* outstanding, the loading flag is cleared and the earlier result set is
\* still displayed
C27_Witness ==
    /\ error = Some("Failed to load places. Please try again.")
    /\ ~isLoading
    /\ pendingFetches = {}
    /\ pendingLocations = {}
    /\ nextFetchId = 4
    /\ Len(resolved) = 2
    /\ resolved[2].id = 2
    /\ places = resolved[2].data
    /\ places # <<>>
    /\ selectedPlace # Null
    /\ userLocation # Null
    /\ filters # InitialFilters

-----------------------------------------------------------------------------
(* Parts I and II: the queries of the home page at the nearby endpoint *)

DigitChars == <<"0", "1", "2", "3", "4", "5", "6", "7", "8", "9">>

\* String(n) of a natural number
RECURSIVE NumberText(_)
NumberText(n) ==
    IF n < 10
      THEN <<DigitChars[n + 1]>>
      ELSE NumberText(n \div 10) \o <<DigitChars[(n % 10) + 1]>>

\* the text without the zeros at its end
RECURSIVE WithoutTrailingZeros(_)
WithoutTrailingZeros(u) ==
    IF u # <<>> /\ u[Len(u)] = "0"
      THEN WithoutTrailingZeros(SubSeq(u, 1, Len(u) - 1))
      ELSE u

\* String(x) of a number of degrees, x being in units of 1e-4 degree: the
\* shortest decimal form
DegreesText(x) ==
    LET whole == NumberText(Abs(x) \div 10000)
        digits == NumberText(10000 + (Abs(x) % 10000))
        fraction == WithoutTrailingZeros(Tail(digits))
    IN  (IF x < 0 THEN <<"-">> ELSE <<>>)
           \o whole
           \o (IF fraction = <<>> THEN <<>> ELSE <<".">> \o fraction)

\* the query string that axios makes of params { lat, lng, distance, type }:
\* a param that is undefined is left out
QueryString(q) ==
    [lat |-> T(DegreesText(The(q.location).lat)),
     lng |-> T(DegreesText(The(q.location).lng)),
     distance |-> T(NumberText(The(q.distance))),
     type |-> IF q.type = Undefined THEN Null ELSE T(q.type)]

\* every position of the slider
AllSliderDistances ==
    {SliderMin + k * SliderStep :
       k \in 0..((SliderMax - SliderMin) \div SliderStep)}

\* C28: every nearby query that the home page issues passes the server's
\* validation: its radius is an integer of 100 to 50000 (5000 at first,
\* then a slider value of 1000 to 25000 in steps of 1000), its category is
\* absent, 'restaurant' or 'mosque', and validateNearbyQuery finds no
\* error in its query string, so that it is never answered 400.  Every
\* position of the slider is looked at once, before the page is mounted.
C28_ClientQueriesPassValidation ==
    /\ \A q \in pendingFetches :
          q.kind = "nearby" =>
             /\ The(q.distance) \in {InitialDistance} \cup AllSliderDistances
             /\ The(q.distance) >= MinDistance
             /\ The(q.distance) <= MaxDistance
             /\ q.type \in {Undefined, "restaurant", "mosque"}
             /\ ValidateNearbyQuery(QueryString(q)) = <<>>
    /\ filters.distance \in {InitialDistance} \cup AllSliderDistances
    /\ filters.type \in {"all", "restaurant", "mosque"}
    /\ ~mounted =>
          \A d \in {InitialDistance} \cup AllSliderDistances :
             /\ d >= MinDistance
             /\ d <= MaxDistance
             /\ DistanceChain([distance |-> T(NumberText(d))]) = <<>>

\* C28 witness: with the slider moved to 1000, a nearby query for mosques
\* within 1000 m of the user's location is outstanding, and its query
\* string is lat=41.7089&lng=44.8015&distance=1000&type=mosque
C28_Witness ==
    \E q \in pendingFetches :
       /\ q.kind = "nearby"
       /\ q.location = userLocation
       /\ q.distance = Some(1000)
       /\ q.type = "mosque"
       /\ filters.distance = 1000
       /\ QueryString(q) =
             [lat |-> T(<<"4", "1", ".", "7", "0", "8", "9">>),
              lng |-> T(<<"4", "4", ".", "8", "0", "1", "5">>),
              distance |-> T(<<"1", "0", "0", "0">>),
              type |-> T("mosque")]

-----------------------------------------------------------------------------
(* Part VI: the admin pages in the browser *)

(* AdminLayout wraps every page under /admin, the login page included.  A
   page is loaded whole (a typed address, a link <a href>, an assignment to
   window.location.href), which mounts AdminLayout anew, or reached with
   router.push, which keeps AdminLayout mounted and changes pathname some
   time after the call.  The browser has one request under way at a time;
   the server of Part IV answers it. *)

AdminPaths == {"/admin", "/admin/places", "/admin/login"}

\* the pages behind the login
ProtectedPaths == AdminPaths \ {"/admin/login"}

\* lib/api.ts isAuthenticated: !!localStorage.getItem('auth_token')
IsAuthenticated == authToken # Null

\* config/auth.ts generateToken: the token that a successful login returns
GeneratedToken(userId) ==
    [form |-> "jwt", secret |-> "JWT_SECRET", expired |-> FALSE,
     issuer |-> "halalmap-georgia", audience |-> "halalmap-admin",
     userId |-> userId]

\* AdminLayout has rendered {children}: it is mounted and past the spinner
ChildrenRendered == pathname \in AdminPaths /\ ~isChecking

\* the browser loads a page; requests under way end with the old page
LoadPage(path) ==
    /\ pathname' = path
    /\ isAuth' = FALSE
    /\ isChecking' = TRUE
    /\ effectDue' = (path \in AdminPaths)
    /\ navigation' = Null

\* the user opens a page by its address
OpenPage(path) ==
    /\ pc = "idle"
    /\ LoadPage(path)
    /\ UNCHANGED authToken

\* AdminLayout: the effect checkAuth, run after mount and after a change of
\* pathname
CheckAuth ==
    /\ effectDue
    /\ effectDue' = FALSE
    /\ isAuth' = IsAuthenticated
    /\ isChecking' = FALSE
    /\ navigation' = IF ~IsAuthenticated /\ pathname # "/admin/login"
                       THEN Some("/admin/login") ELSE navigation
    /\ UNCHANGED <<authToken, pathname>>

\* a router.push completes: usePathname returns the new path
RouteChanges ==
    /\ navigation # Null
    /\ pathname' = The(navigation)
    /\ navigation' = Null
    /\ effectDue' = (effectDue \/ The(navigation) # pathname)
    /\ UNCHANGED <<authToken, isAuth, isChecking>>

\* AdminLayout handleLogout, on the button of the header
HandleLogout ==
    /\ ChildrenRendered
    /\ pathname \in ProtectedPaths
    /\ authToken' = Null
    /\ navigation' = Some("/admin/login")
    /\ UNCHANGED <<pathname, isAuth, isChecking, effectDue>>

\* the token stored in the browser passes its expiry time
TokenExpires ==
    /\ authToken # Null
    /\ ~The(authToken).expired
    /\ authToken' = Some([The(authToken) EXCEPT !.expired = TRUE])
    /\ UNCHANGED <<pathname, isAuth, isChecking, effectDue, navigation>>

\* the server is restarted with another JWT_SECRET: the token stored in the
\* browser is no longer one signed with the server's secret
SecretChanges ==
    /\ authToken # Null
    /\ The(authToken).secret = "JWT_SECRET"
    /\ authToken' = Some([The(authToken) EXCEPT !.secret = "another secret"])
    /\ UNCHANGED <<pathname, isAuth, isChecking, effectDue, navigation>>

\* the requests that the page at a path makes: the dashboard its
\* statistics, the places page its list and its writes, the login page the
\* login
PageRequests(path) ==
    CASE path = "/admin" -> {"GET /api/admin/dashboard"}
      [] path = "/admin/places" ->
            {"GET /api/places", "POST /api/admin/places",
             "PUT /api/admin/places/:id",
             "PATCH /api/admin/places/:id/verify",
             "DELETE /api/admin/places/:id"}
      [] path = "/admin/login" -> {"POST /api/admin/login"}
      [] OTHER -> {}

\* lib/api.ts request interceptor: Authorization is 'Bearer <token>' when a
\* token is stored
RequestInterceptor ==
    IF authToken # Null
      THEN Some([scheme |-> "Bearer", token |-> The(authToken)])
      ELSE Null

\* a rendered page sends a request through the API client
SendRequest(route, valid) ==
    /\ ChildrenRendered
    /\ route \in PageRequests(pathname)
    /\ Dispatch(route, RequestInterceptor, valid)
    /\ UNCHANGED adminVars

\* the response reaches the API client: the response interceptor, then the
\* caller (adminLogin stores the token of a login and handleSubmit of the
\* login page pushes /admin)
ReceiveResponse(userId) ==
    /\ pc = "done"
    /\ NextRequest
    /\ IF The(res).status = 401
         THEN /\ authToken' = Null
              /\ IF pathname \in ProtectedPaths
                   THEN LoadPage("/admin/login")
                   ELSE UNCHANGED <<pathname, isAuth, isChecking, effectDue,
                                    navigation>>
         ELSE IF /\ The(req).route = "POST /api/admin/login"
                 /\ The(res).status \in {200, 201}
                THEN /\ authToken' = Some(GeneratedToken(userId))
                     /\ navigation' = Some("/admin")
                     /\ UNCHANGED <<pathname, isAuth, isChecking, effectDue>>
                ELSE UNCHANGED adminVars

\* the admin pages in the browser and the server that answers them
NextAdmin ==
    \/ \E path \in AdminPaths \cup {"/"} :
          OpenPage(path)
             /\ UNCHANGED <<clientVars, serverVars, storeVars, txVars>>
    \/ CheckAuth /\ UNCHANGED <<clientVars, serverVars, storeVars, txVars>>
    \/ RouteChanges /\ UNCHANGED <<clientVars, serverVars, storeVars, txVars>>
    \/ HandleLogout /\ UNCHANGED <<clientVars, serverVars, storeVars, txVars>>
    \/ TokenExpires /\ UNCHANGED <<clientVars, serverVars, storeVars, txVars>>
    \/ SecretChanges /\ UNCHANGED <<clientVars, serverVars, storeVars, txVars>>
    \/ \E route \in Routes, valid \in BOOLEAN :
          SendRequest(route, valid)
             /\ UNCHANGED <<clientVars, storeVars, txVars>>
    \/ AuthenticateToken /\ UNCHANGED <<clientVars, storeVars, restVars>>
    \/ RunValidationChains /\ UNCHANGED <<clientVars, storeVars, restVars>>
    \/ HandleValidationErrorsOnRoute
          /\ UNCHANGED <<clientVars, storeVars, restVars>>
    \/ \E status \in ControllerStatuses :
          RunController(status) /\ UNCHANGED <<clientVars, storeVars, restVars>>
    \/ \E userId \in {1, 2} :
          ReceiveResponse(userId)
             /\ UNCHANGED <<clientVars, storeVars, txVars>>

SpecAdmin == Init /\ [][NextAdmin]_vars

-----------------------------------------------------------------------------
(* Part VI, properties of the admin pages *)

\* the response under way is a rejection by authenticateToken of a request
\* that carried the stored token, which is expired or otherwise invalid
TokenRejected ==
    /\ pc = "done"
    /\ The(res).handler = "authenticateToken"
    /\ The(req).authorization # Null
    /\ The(req).authorization = RequestInterceptor
    /\ ~HasValidToken

\* C25 as stated: whenever the server rejects an admin request because the
\* token stored by the client is invalid or expired, the response
\* interceptor removes auth_token from storage, so that isAuthenticated()
\* is false afterwards, and on an admin page other than the login page the
\* browser is sent to /admin/login.
C25_RejectedTokenIsCleared ==
    [][(TokenRejected /\ pc' = "idle") =>
          /\ authToken' = Null
          /\ ~IsAuthenticated'
          /\ pathname \in ProtectedPaths => pathname' = "/admin/login"]_vars

\* C29 as stated: on an admin path other than /admin/login, AdminLayout
\* renders the page content (children) only while an auth token is stored;
\* with no token the user is sent to /admin/login and the protected
\* content is never rendered.
C29_ProtectedContentNeedsToken ==
    /\ (pathname \in ProtectedPaths /\ ChildrenRendered) => IsAuthenticated
    /\ (pathname \in ProtectedPaths /\ ~isChecking /\ ~IsAuthenticated)
          => navigation = Some("/admin/login")

-----------------------------------------------------------------------------
(* Part VII: transaction(callback) *)

(* One call at a time.  txPc is the await at which the call stands:
   "connect", "BEGIN", "callback", "COMMIT", "ROLLBACK", or "settled" once
   its promise has resolved or rejected.  An error is [at, message]: the
   await that threw it and its message; two errors thrown at different
   awaits are different errors even when their messages are equal. *)

ErrorMessages == {"Connection terminated unexpectedly",
                  "duplicate key value violates unique constraint"}

Failure(at, message) == [at |-> at, message |-> message]

Resolved == [settled |-> "resolved", error |-> Null]

Rejected_(e) == [settled |-> "rejected", error |-> Some(e)]

\* transaction(callback) is called: await pool.connect()
Transaction ==
    /\ txPc \in {"idle", "settled"}
    /\ calls < MaxCalls
    /\ calls' = calls + 1
    /\ txPc' = "connect"
    /\ txLog' = <<>>
    /\ released' = 0
    /\ thrown' = Null
    /\ outcome' = Null

\* pool.connect() returns a client: try { await client.query('BEGIN')
ConnectReturns ==
    /\ txPc = "connect"
    /\ txLog' = Append(txLog, "BEGIN")
    /\ txPc' = "BEGIN"
    /\ UNCHANGED <<released, thrown, outcome, calls>>

\* pool.connect() throws, outside the try block: the call rejects
ConnectThrows(message) ==
    /\ txPc = "connect"
    /\ outcome' = Some(Rejected_(Failure("connect", message)))
    /\ txPc' = "settled"
    /\ UNCHANGED <<txLog, released, thrown, calls>>

\* an await of the try block throws: catch (error) { await
\* client.query('ROLLBACK')
Catch(caught) ==
    /\ thrown' = Some(caught)
    /\ txLog' = Append(txLog, "ROLLBACK")
    /\ txPc' = "ROLLBACK"
    /\ UNCHANGED <<released, outcome, calls>>

\* finally { client.release() }, and the promise of the call settles
Finally(settlement) ==
    /\ released' = released + 1
    /\ outcome' = Some(settlement)
    /\ txPc' = "settled"
    /\ UNCHANGED <<txLog, thrown, calls>>

\* BEGIN returns: await callback(client)
BeginReturns ==
    /\ txPc = "BEGIN"
    /\ txPc' = "callback"
    /\ UNCHANGED <<txLog, released, thrown, outcome, calls>>

BeginThrows(message) ==
    /\ txPc = "BEGIN"
    /\ Catch(Failure("BEGIN", message))

\* the callback sends a statement to the client
CallbackQuery ==
    /\ txPc = "callback"
    /\ Len(txLog) <= MaxStatements
    /\ txLog' = Append(txLog, "INSERT")
    /\ UNCHANGED <<txPc, released, thrown, outcome, calls>>

\* the callback returns: await client.query('COMMIT')
CallbackReturns ==
    /\ txPc = "callback"
    /\ txLog' = Append(txLog, "COMMIT")
    /\ txPc' = "COMMIT"
    /\ UNCHANGED <<released, thrown, outcome, calls>>

CallbackThrows(message) ==
    /\ txPc = "callback"
    /\ Catch(Failure("callback", message))

\* COMMIT returns: the try block ends, then the finally block
CommitReturns ==
    /\ txPc = "COMMIT"
    /\ Finally(Resolved)

CommitThrows(message) ==
    /\ txPc = "COMMIT"
    /\ Catch(Failure("COMMIT", message))

\* ROLLBACK returns: throw error, then the finally block
RollbackReturns ==
    /\ txPc = "ROLLBACK"
    /\ Finally(Rejected_(The(thrown)))

\* ROLLBACK throws inside the catch block: its error leaves the catch
\* block in the place of the caught one, then the finally block
RollbackThrows(message) ==
    /\ txPc = "ROLLBACK"
    /\ Finally(Rejected_(Failure("ROLLBACK", message)))

NextTransaction ==
    \/ Transaction /\ UNCHANGED <<clientVars, serverVars, storeVars, adminVars>>
    \/ ConnectReturns
          /\ UNCHANGED <<clientVars, serverVars, storeVars, adminVars>>
    \/ \E message \in ErrorMessages :
          ConnectThrows(message)
             /\ UNCHANGED <<clientVars, serverVars, storeVars, adminVars>>
    \/ BeginReturns
          /\ UNCHANGED <<clientVars, serverVars, storeVars, adminVars>>
    \/ \E message \in ErrorMessages :
          BeginThrows(message)
             /\ UNCHANGED <<clientVars, serverVars, storeVars, adminVars>>
    \/ CallbackQuery
          /\ UNCHANGED <<clientVars, serverVars, storeVars, adminVars>>
    \/ CallbackReturns
          /\ UNCHANGED <<clientVars, serverVars, storeVars, adminVars>>
    \/ \E message \in ErrorMessages :
          CallbackThrows(message)
             /\ UNCHANGED <<clientVars, serverVars, storeVars, adminVars>>
    \/ CommitReturns
          /\ UNCHANGED <<clientVars, serverVars, storeVars, adminVars>>
    \/ \E message \in ErrorMessages :
          CommitThrows(message)
             /\ UNCHANGED <<clientVars, serverVars, storeVars, adminVars>>
    \/ RollbackReturns
          /\ UNCHANGED <<clientVars, serverVars, storeVars, adminVars>>
    \/ \E message \in ErrorMessages :
          RollbackThrows(message)
             /\ UNCHANGED <<clientVars, serverVars, storeVars, adminVars>>

SpecTransaction == Init /\ [][NextTransaction]_vars

-----------------------------------------------------------------------------
(* Part VII, properties of transaction *)

\* the statement was sent to the client
Issued(statement) == \E i \in DOMAIN txLog : txLog[i] = statement

\* C30 as stated: the client taken from the pool is released exactly once
\* whatever happens; COMMIT is issued only if BEGIN and the callback both
\* succeeded; if BEGIN, the callback or COMMIT fails, ROLLBACK is issued
\* and the original error is rethrown to the caller; the call resolves
\* only when COMMIT succeeded.
C30_TransactionSettles ==
    /\ released <= 1
    /\ txPc = "settled" => (released = 1 <=> txLog # <<>>)
    /\ txPc \notin {"idle", "settled"} => released = 0
    /\ Issued("COMMIT") =>
          /\ txLog[1] = "BEGIN"
          /\ thrown # Null => The(thrown).at = "COMMIT"
    /\ thrown # Null =>
          /\ txLog[Len(txLog)] = "ROLLBACK"
          /\ txPc = "settled" => outcome = Some(Rejected_(The(thrown)))
    /\ (outcome # Null /\ The(outcome).settled = "resolved") =>
          /\ thrown = Null
          /\ txLog[Len(txLog)] = "COMMIT"
          /\ ~Issued("ROLLBACK")

=============================================================================
